---- MODULE Spec2Model ----
(***************************************************************************)
(* A model of the crud package: the Helper that reflects a record type     *)
(* into SQL statements and validation tables (src/mdl.go, package crud)    *)
(* and the Controller that validates, saves, loads, deletes and lists      *)
(* records through a database handle (src/controller.go).                  *)
(*                                                                         *)
(* Go strings that the code only stores and compares for equality are TLA+ *)
(* strings.  Names that the code inspects byte by byte (type and field     *)
(* names, column names, ids in a URI) are sequences of byte values.        *)
(* A Go value of dynamic type (a struct field, an interface{}) is a record *)
(* [t, i, s]: t its type name, i its integer value, s its string value.    *)
(***************************************************************************)
EXTENDS Integers, Sequences, FiniteSets, TLC

VARIABLES
    modelHelpers,  \* Controller.modelHelpers: type name -> Helper
    table,         \* the rows of the record type's table: id -> (column -> value)
    serial,        \* the last value the table's SERIAL identity sequence gave out
    objs,          \* the record instances the caller holds: slot -> (field -> value)
    ret,           \* what the last Controller operation did and returned
    vIn,           \* Validate under test: its arguments (obj, filters)
    vOut,          \* Validate under test: its result
    qIn,           \* GetQuerySelect / GetFiltersInterfaces under test: their arguments
    qOut,          \* their results, one per call
    recType,       \* the record type the caller's instances are of
    handlers,      \* the number of handlers GetHTTPHandler has returned
    resp,          \* the last HTTP request and the response to it
    goroutines,    \* the goroutines inside getHelper: where each is, and its access to the map
    linked,        \* the Controller with link fields: the instance, the linked object, the last call
    named          \* a type name and the table name made of it

vars == <<modelHelpers, table, serial, objs, ret, vIn, vOut, qIn, qOut, recType, handlers, resp,
          goroutines, linked, named>>

(***************************************************************************)
(* Bounds of the model.                                                    *)
(***************************************************************************)
\* how many rows the identity sequence may hand out
MaxID == 2
\* how many keys a filter map of the list query has at most
MaxFilterKeys == 3

(***************************************************************************)
(* Bytes and strings.                                                      *)
(***************************************************************************)
\* the bytes of the names the model uses (Go: ranging over a string)
Chars(s) ==
    CASE s = "Item"   -> <<73, 116, 101, 109>>
      [] s = "Odd"    -> <<79, 100, 100>>
      [] s = "Item_Update" -> <<73, 116, 101, 109, 95, 85, 112, 100, 97, 116, 101>>
      [] s = "Pair"   -> <<80, 97, 105, 114>>
      [] s = "ID"     -> <<73, 68>>
      [] s = "Flags"  -> <<70, 108, 97, 103, 115>>
      [] s = "Name"   -> <<78, 97, 109, 101>>
      [] s = "Email"  -> <<69, 109, 97, 105, 108>>
      [] s = "Age"    -> <<65, 103, 101>>
      [] s = "Hits"   -> <<72, 105, 116, 115>>
      [] s = "Code"   -> <<67, 111, 100, 101>>
      [] s = "Note"   -> <<78, 111, 116, 101>>
      [] s = "Memo"   -> <<77, 101, 109, 111>>
      [] s = "Parent" -> <<80, 97, 114, 101, 110, 116>>
      [] s = "Bogus"  -> <<66, 111, 103, 117, 115>>
      [] s = "req"    -> <<114, 101, 113>>
      [] s = "email"  -> <<101, 109, 97, 105, 108>>
      [] s = "lenmin" -> <<108, 101, 110, 109, 105, 110>>
      [] s = "lenmax" -> <<108, 101, 110, 109, 97, 120>>
      [] s = "valmin" -> <<118, 97, 108, 109, 105, 110>>
      [] s = "valmax" -> <<118, 97, 108, 109, 97, 120>>
      [] s = "regexp" -> <<114, 101, 103, 101, 120, 112>>
      [] s = "link"   -> <<108, 105, 110, 107>>
      [] s = "link:"  -> <<108, 105, 110, 107, 58>>
      [] s = "User"   -> <<85, 115, 101, 114>>
      [] s = "Nobody" -> <<78, 111, 98, 111, 100, 121>>
      [] s = "Session" -> <<83, 101, 115, 115, 105, 111, 110>>
      [] s = "Stray" -> <<83, 116, 114, 97, 121>>
      [] s = "Key" -> <<75, 101, 121>>
      [] s = "ExpiresAt" -> <<69, 120, 112, 105, 114, 101, 115, 65, 116>>
      [] s = "UserID" -> <<85, 115, 101, 114, 73, 68>>
      [] s = "Category" -> <<67, 97, 116, 101, 103, 111, 114, 121>>
      [] s = "Cross" -> <<67, 114, 111, 115, 115>>
      [] s = "ProductCategory" -> <<80, 114, 111, 100, 117, 99, 116, 67, 97, 116, 101, 103, 111, 114, 121>>
      [] s = "UserCart" -> <<85, 115, 101, 114, 67, 97, 114, 116>>
      [] s = "OwnerID" -> <<79, 119, 110, 101, 114, 73, 68>>

\* unicode.IsUpper on the ASCII range
IsUpper(ch) == ch >= 65 /\ ch <= 90

\* strings.ToLower of one character
ToLower(ch) == IF IsUpper(ch) THEN ch + 32 ELSE ch

\* strings.HasSuffix on byte sequences
HasSuffix(s, suffix) ==
    /\ Len(s) >= Len(suffix)
    /\ SubSeq(s, Len(s) - Len(suffix) + 1, Len(s)) = suffix

\* Go's < on strings: bytewise lexicographic order
RECURSIVE StrLess(_, _)
StrLess(a, b) ==
    IF b = <<>> THEN FALSE
    ELSE IF a = <<>> THEN TRUE
    ELSE IF Head(a) # Head(b) THEN Head(a) < Head(b)
    ELSE StrLess(Tail(a), Tail(b))

\* the place of x in the sorted sequence s
RECURSIVE InsertSorted(_, _)
InsertSorted(s, x) ==
    IF s = <<>> THEN <<x>>
    ELSE IF StrLess(x, Head(s)) THEN <<x>> \o s
    ELSE <<Head(s)>> \o InsertSorted(Tail(s), x)

\* a sort.Strings that leaves the sequence as it is
Unsorted(s) == s

\* sort.Strings: the sequence in ascending bytewise order
RECURSIVE SortStrings(_)
SortStrings(s) ==
    IF s = <<>> THEN <<>>
    ELSE InsertSorted(SortStrings(Tail(s)), Head(s))

\* Helper.getUnderscoredName: lower-case, "_" before every upper-case letter
\* but the first one and a D that follows an I
RECURSIVE underscoredFrom(_, _, _)
underscoredFrom(s, i, prev) ==
    IF i > Len(s) THEN <<>>
    ELSE LET ch == s[i]
             o  == IF i = 1 THEN <<ToLower(ch)>>
                   ELSE IF IsUpper(ch)
                        THEN IF prev = 73 /\ ch = 68
                             THEN <<ToLower(ch)>>
                             ELSE <<95, ToLower(ch)>>
                        ELSE <<ch>>
         IN  o \o underscoredFrom(s, i + 1, ch)

getUnderscoredName(s) == underscoredFrom(s, 1, 0)

\* a getPluralName that appends s to every name
getPluralNameAppending(s) == s \o <<115>>

\* Helper.getPluralName: a final y becomes ies, a final s gets es, otherwise s is appended
getPluralName(s) ==
    IF s # <<>> /\ s[Len(s)] = 121 THEN SubSeq(s, 1, Len(s) - 1) \o <<105, 101, 115>>
    ELSE IF s # <<>> /\ s[Len(s)] = 115 THEN s \o <<101, 115>>
    ELSE s \o <<115>>

(***************************************************************************)
(* strconv.Atoi and fmt.Sprintf("%d") on byte strings.                     *)
(***************************************************************************)
IsDigit(ch) == ch >= 48 /\ ch <= 57

RECURSIVE digitsValue(_, _)
digitsValue(str, acc) ==
    IF str = <<>> THEN acc ELSE digitsValue(Tail(str), acc * 10 + (Head(str) - 48))

\* the digits of the largest int, 9223372036854775807 (int has 64 bits)
MaxIntDigits == <<57, 50, 50, 51, 51, 55, 50, 48, 51, 54, 56, 53, 52, 55, 55, 53, 56, 48, 55>>

\* the digits without their leading zeros
RECURSIVE stripZeros(_)
stripZeros(digits) ==
    IF Len(digits) > 1 /\ Head(digits) = 48 THEN stripZeros(Tail(digits)) ELSE digits

\* the number is out of the range of int (the one more that a minus sign
\* allows is left out)
outOfRange(digits) ==
    LET d == stripZeros(digits)
    IN  \/ Len(d) > Len(MaxIntDigits)
        \/ Len(d) = Len(MaxIntDigits) /\ StrLess(MaxIntDigits, d)

\* strconv.Atoi: an optional sign, then one or more digits; a syntax error or
\* a range error otherwise
Atoi(str) ==
    LET signed == str # <<>> /\ Head(str) \in {43, 45}
        digits == IF signed THEN Tail(str) ELSE str
    IN  IF digits = <<>> \/ \E n \in 1..Len(digits) : ~IsDigit(digits[n])
        THEN [err |-> TRUE, n |-> 0]
        ELSE IF outOfRange(digits) THEN [err |-> TRUE, n |-> 0]
        ELSE [err |-> FALSE,
              n |-> IF signed /\ Head(str) = 45 THEN 0 - digitsValue(digits, 0)
                    ELSE digitsValue(digits, 0)]

\* fmt.Sprintf("%d", n) for n >= 0
RECURSIVE FormatInt(_)
FormatInt(n) ==
    IF n < 10 THEN <<48 + n>> ELSE FormatInt(n \div 10) \o <<48 + (n % 10)>>

(***************************************************************************)
(* The record type the Controller is used with.  Tags are in the "crud"    *)
(* tag language of the package; a tag is the list of its space-separated   *)
(* options.                                                                *)
(***************************************************************************)
\* an option is its name, the text after the colon and, for regexp, the pattern
Opt(o) == [opt |-> o, txt |-> <<>>, re |-> ""]
OptText(o, txt) == [opt |-> o, txt |-> txt, re |-> ""]
OptVal(o, n) == OptText(o, FormatInt(n))
OptRe(p) == [opt |-> "regexp", txt |-> <<>>, re |-> p]

Item ==
    [ name |-> "Item",
      fields |-> <<
        [name |-> "ID",     kind |-> "int64",  crud |-> <<>>],
        [name |-> "Flags",  kind |-> "int64",  crud |-> <<>>],
        [name |-> "Name",   kind |-> "string",
            crud |-> <<Opt("req"), OptVal("lenmin", 2), OptVal("lenmax", 4)>>],
        [name |-> "Email",  kind |-> "string", crud |-> <<OptVal("lenmax", 5)>>],
        [name |-> "Age",    kind |-> "int",
            crud |-> <<Opt("req"), OptVal("valmin", 0), OptVal("valmax", 3)>>],
        [name |-> "Hits",   kind |-> "int",    crud |-> <<Opt("req")>>],
        [name |-> "Code",   kind |-> "string",
            crud |-> <<OptVal("lenmax", 1), OptRe("^[0-9]$")>>],
        [name |-> "Note",   kind |-> "string", crud |-> <<>>],
        [name |-> "Memo",   kind |-> "string", crud |-> <<OptVal("lenmin", 0)>>],
        [name |-> "Parent", kind |-> "ptr",    crud |-> <<>>] >> ]

\* a record type with a valmin that is no integer: the tag of Age is
\* `crud:"req valmin:x valmax:3"`
Odd ==
    [ name |-> "Odd",
      fields |-> <<
        [name |-> "ID",     kind |-> "int64",  crud |-> <<>>],
        [name |-> "Name",   kind |-> "string", crud |-> <<OptVal("lenmax", 4)>>],
        [name |-> "Age",    kind |-> "int",
            crud |-> <<Opt("req"), OptText("valmin", <<120>>), OptVal("valmax", 3)>>] >> ]

\* a record type with a pointer between its columns
Pair ==
    [ name |-> "Pair",
      fields |-> <<
        [name |-> "ID",     kind |-> "int64",  crud |-> <<>>],
        [name |-> "Name",   kind |-> "string", crud |-> <<Opt("req"), OptVal("lenmax", 4)>>],
        [name |-> "Parent", kind |-> "ptr",    crud |-> <<>>],
        [name |-> "Age",    kind |-> "int",    crud |-> <<OptVal("valmax", 3)>>],
        [name |-> "Flags",  kind |-> "int64",  crud |-> <<>>] >> ]

RecordTypes == {Item, Odd, Pair}

\* reflect: the kinds the Helper and the Controller treat as columns
IsScalar(kind) == kind \in {"int64", "int", "string"}

FieldNames(T) == {T.fields[j].name : j \in 1..Len(T.fields)}
ScalarIdx(T) == {j \in 1..Len(T.fields) : IsScalar(T.fields[j].kind)}
ScalarNames(T) == {T.fields[j].name : j \in ScalarIdx(T)}

\* reflect.Value.FieldByName(k).Type().Name()
FieldOf(T, k) == T.fields[CHOOSE j \in 1..Len(T.fields) : T.fields[j].name = k]
FieldKind(T, k) == FieldOf(T, k).kind

(***************************************************************************)
(* Helper: reflectStructForValidation and the tag options.                 *)
(***************************************************************************)
\* the options of setFieldFromTagOptWithVal that take an integer
IntOpts == {"lenmin", "lenmax", "valmin", "valmax"}

NoHelperError == [Op |-> "nil", Tag |-> ""]

\* Helper.setFieldFromTagOptWithVal for one option: the HelperError it returns
\* and the integer it read
setFieldFromTagOptWithVal(o) ==
    LET a == Atoi(o.txt)
    IN  IF o.opt \in IntOpts /\ a.err
        THEN [helperError |-> [Op |-> "ParseTag", Tag |-> o.opt], val |-> 0]
        ELSE [helperError |-> NoHelperError, val |-> IF o.opt \in IntOpts THEN a.n ELSE 0]

\* Helper.setFieldFromTag: the options of a tag that take effect, each with
\* the integer read from it: those before the first one for which
\* setFieldFromTagOptWithVal returns an error.  The error is a local of
\* setFieldFromTag: it is neither returned nor stored in the Helper
setFieldFromTag(crud) ==
    LET r      == [n \in 1..Len(crud) |-> setFieldFromTagOptWithVal(crud[n])]
        failed == {n \in 1..Len(crud) : r[n].helperError # NoHelperError}
        upto   == IF failed = {} THEN Len(crud)
                  ELSE (CHOOSE n \in failed : \A m \in failed : n <= m) - 1
    IN  [n \in 1..upto |-> [opt |-> crud[n].opt, val |-> r[n].val, re |-> crud[n].re]]

\* the record type with, for every field, the options that take effect
TagsInEffect(T) ==
    [T EXCEPT !.fields = [j \in 1..Len(T.fields) |->
                             [T.fields[j] EXCEPT !.crud = setFieldFromTag(T.fields[j].crud)]]]

\* Helper.setFieldFromName and the "email" option of setFieldFromTagOptWithoutVal
IsEmailField(f) ==
    \/ HasSuffix(Chars(f.name), Chars("Email"))
    \/ \E n \in 1..Len(f.crud) : f.crud[n].opt = "email"

\* Helper.setFieldFromTagOptWithoutVal, option "req"
IsRequiredField(f) == \E n \in 1..Len(f.crud) : f.crud[n].opt = "req"

\* Helper.setFieldFromTagOptWithVal, cases lenmin and lenmax, over the options
\* of one tag from left to right
RECURSIVE lengthFromTag(_, _, _)
lengthFromTag(crud, n, acc) ==
    IF n > Len(crud) THEN acc
    ELSE LET o == crud[n]
             next == IF o.opt = "lenmin" THEN <<o.val, acc[2]>>
                     ELSE IF o.opt = "lenmax" THEN <<acc[1], o.val>>
                     ELSE acc
         IN  lengthFromTag(crud, n + 1, next)

\* Helper.setFieldFromTagOptWithVal, cases valmin and valmax: fieldsValue
RECURSIVE valueFromTag(_, _, _)
valueFromTag(crud, n, acc) ==
    IF n > Len(crud) THEN acc
    ELSE LET o == crud[n]
             next == IF o.opt = "valmin" THEN <<o.val, acc[2]>>
                     ELSE IF o.opt = "valmax" THEN <<acc[1], o.val>>
                     ELSE acc
         IN  valueFromTag(crud, n + 1, next)

\* a tag reader that never marks a zero bound
notNilNever(crud, n, acc) == acc

\* Helper.setFieldFromTagOptWithVal, cases valmin and valmax: fieldsValueNotNil
RECURSIVE notNilFromTag(_, _, _)
notNilFromTag(crud, n, acc) ==
    IF n > Len(crud) THEN acc
    ELSE LET o == crud[n]
             next == IF o.opt = "valmin" /\ o.val = 0 THEN <<TRUE, acc[2]>>
                     ELSE IF o.opt = "valmax" /\ o.val = 0 THEN <<acc[1], TRUE>>
                     ELSE acc
         IN  notNilFromTag(crud, n + 1, next)

\* the bounds reflectStructForValidation gives every scalar field before it
\* reads the field's tag
InitLength == <<0, 0>>
InitValue == <<0, 0>>
InitNotNil == <<FALSE, FALSE>>

\* Helper.setFieldFromTagOptWithVal, case regexp: the last pattern of the tag
HasRegExp(f) == \E n \in 1..Len(f.crud) : f.crud[n].opt = "regexp"
regExpFromTag(f) ==
    LET crud == f.crud
        last == CHOOSE n \in 1..Len(crud) :
                    /\ crud[n].opt = "regexp"
                    /\ \A m \in (n + 1)..Len(crud) : crud[m].opt # "regexp"
    IN  crud[last].re

\* Helper.reflectStructForValidation: the validation tables of the Helper
reflectStructForValidation(T) ==
    LET reflected(E) ==
    [ fieldsRequired    |-> {k \in ScalarNames(T) : IsRequiredField(FieldOf(E, k))},
      fieldsLength      |-> [k \in ScalarNames(T) |->
                                lengthFromTag(FieldOf(E, k).crud, 1, InitLength)],
      fieldsValue       |-> [k \in ScalarNames(T) |->
                                valueFromTag(FieldOf(E, k).crud, 1, InitValue)],
      fieldsValueNotNil |-> [k \in ScalarNames(T) |->
                                notNilFromTag(FieldOf(E, k).crud, 1, InitNotNil)],
      fieldsEmail       |-> {k \in ScalarNames(T) : IsEmailField(FieldOf(E, k))},
      fieldsRegExp      |-> [k \in {x \in ScalarNames(T) : HasRegExp(FieldOf(E, x))} |->
                                regExpFromTag(FieldOf(E, k))],
      fieldsTags        |-> [k \in ScalarNames(T) |-> FieldOf(T, k).crud] ]
    IN  reflected(TagsInEffect(T))

(***************************************************************************)
(* Helper: reflectStructForDBQueries.  A statement is kept as its parts:   *)
(* the table, the columns in the order of the text, and the number of the  *)
(* placeholder $n bound to each.                                           *)
(***************************************************************************)
\* Helper.getDBCol
getDBCol(dbColPrefix, n) ==
    IF n = "ID" THEN dbColPrefix \o <<95, 105, 100>>
    ELSE IF n = "Flags" THEN dbColPrefix \o <<95, 102, 108, 97, 103, 115>>
    ELSE getUnderscoredName(Chars(n))

\* Helper.getDBColParams: the column type of CREATE TABLE
getDBColParams(n, t) ==
    IF n = "ID" THEN "SERIAL"
    ELSE IF n = "Flags" THEN "BIGINT"
    ELSE IF t = "string" THEN "VARCHAR" ELSE "BIGINT"

\* the loop of reflectStructForDBQueries from field j on: cols, colsWithTypes,
\* colsWithoutID, valsWithoutID, colVals and the fields list; valCnt is the
\* number of the next placeholder
RECURSIVE colsFrom(_, _, _, _)
colsFrom(T, dbColPrefix, j, valCnt) ==
    IF j > Len(T.fields)
    THEN [cols |-> <<>>, colsWithTypes |-> <<>>, colsWithoutID |-> <<>>,
          valsWithoutID |-> <<>>, colVals |-> <<>>, fields |-> <<>>, valCnt |-> valCnt]
    ELSE LET field == T.fields[j] IN
         IF ~IsScalar(field.kind) THEN colsFrom(T, dbColPrefix, j + 1, valCnt)
         ELSE LET dbCol == getDBCol(dbColPrefix, field.name)
                  noID  == field.name # "ID"
                  rest  == colsFrom(T, dbColPrefix, j + 1, IF noID THEN valCnt + 1 ELSE valCnt)
              IN  [ cols          |-> <<dbCol>> \o rest.cols,
                    colsWithTypes |-> <<<<dbCol, getDBColParams(field.name, field.kind)>>>>
                                        \o rest.colsWithTypes,
                    colsWithoutID |-> IF noID THEN <<dbCol>> \o rest.colsWithoutID
                                      ELSE rest.colsWithoutID,
                    valsWithoutID |-> IF noID THEN <<valCnt>> \o rest.valsWithoutID
                                      ELSE rest.valsWithoutID,
                    colVals       |-> IF noID THEN <<<<dbCol, valCnt>>>> \o rest.colVals
                                      ELSE rest.colVals,
                    fields        |-> <<field.name>> \o rest.fields,
                    valCnt        |-> rest.valCnt ]

\* Helper.reflectStructForDBQueries: names, column maps and cached statements
reflectStructForDBQueries(T, dbTablePrefix, forceName) ==
    LET usName    == IF forceName # "" THEN getUnderscoredName(Chars(forceName))
                     ELSE getUnderscoredName(Chars(T.name))
        usPluName == getPluralName(usName)
        dbTbl     == dbTablePrefix \o usPluName
        idCol     == usName \o <<95, 105, 100>>
        c         == colsFrom(T, usName, 1, 1)
    IN  [ dbTbl       |-> dbTbl,
          dbColPrefix |-> usName,
          dbFieldCols |-> [k \in ScalarNames(T) |-> getDBCol(usName, k)],
          dbCols      |-> [col \in {getDBCol(usName, k) : k \in ScalarNames(T)} |->
                              CHOOSE k \in ScalarNames(T) : getDBCol(usName, k) = col],
          fields      |-> c.fields,
          queryCreateTable  |-> [op |-> "CREATE", tbl |-> dbTbl, cols |-> c.colsWithTypes],
          queryDeleteById   |-> [op |-> "DELETE", tbl |-> dbTbl, whereCol |-> idCol, whereArg |-> 1],
          querySelectById   |-> [op |-> "SELECT", tbl |-> dbTbl, cols |-> c.cols,
                                 whereCol |-> idCol, whereArg |-> 1],
          queryInsert       |-> [op |-> "INSERT", tbl |-> dbTbl, cols |-> c.colsWithoutID,
                                 vals |-> c.valsWithoutID, returning |-> idCol],
          queryUpdateById   |-> [op |-> "UPDATE", tbl |-> dbTbl, set |-> c.colVals,
                                 whereCol |-> idCol, whereArg |-> c.valCnt],
          querySelectPrefix |-> [op |-> "SELECT", tbl |-> dbTbl, cols |-> c.cols] ]

\* the fields of two records in one record
Merge(r1, r2) ==
    [k \in (DOMAIN r1) \cup (DOMAIN r2) |-> IF k \in DOMAIN r1 THEN r1[k] ELSE r2[k]]

\* NewHelper: reflectStruct runs reflectStructForValidation, then
\* reflectStructForDBQueries; neither sets err
NewHelper(T, dbTblPrefix, forceName) ==
    Merge(Merge(reflectStructForValidation(T),
                reflectStructForDBQueries(T, dbTblPrefix, forceName)),
          [typ |-> T.name, err |-> "nil"])

\* Helper.setDefaultTags and their use in reflectStructForValidation: a field
\* without a tag of its own is given the tag the source Helper recorded for
\* the field of that name
withDefaultTags(T, src) ==
         [T EXCEPT !.fields =
             [j \in 1..Len(T.fields) |->
                 LET field == T.fields[j]
                 IN  IF /\ IsScalar(field.kind)
                        /\ field.crud = <<>>
                        /\ field.name \in DOMAIN src.fieldsTags
                     THEN [field EXCEPT !.crud = src.fieldsTags[field.name]]
                     ELSE field]]

\* NewHelper(obj, dbTblPrefix, forceName, sourceHelper) with a source Helper;
\* fieldsTags keeps the tags the fields themselves have
NewHelperFrom(T, dbTblPrefix, forceName, src) ==
    [NewHelper(withDefaultTags(T, src), dbTblPrefix, forceName) EXCEPT
        !.fieldsTags = [k \in ScalarNames(T) |-> FieldOf(T, k).crud]]

\* Controller.dbTblPrefix, as the tests build the Controller ("gen64_")
dbTblPrefix == <<103, 101, 110, 54, 52, 95>>

(***************************************************************************)
(* Go values and record instances.                                         *)
(***************************************************************************)
Int64Val(n) == [t |-> "int64", i |-> n, s |-> ""]
IntVal(n) == [t |-> "int", i |-> n, s |-> ""]
StrVal(x) == [t |-> "string", i |-> 0, s |-> x]
\* a pointer field: i = 0 is nil, otherwise it points to some object
PtrVal(n) == [t |-> "ptr", i |-> n, s |-> ""]

\* reflect.Zero of a kind
ZeroValue(kind) == [t |-> kind, i |-> 0, s |-> ""]

\* newObjFunc(): a new instance, every field zero-valued
NewObj(T) == [k \in FieldNames(T) |-> ZeroValue(FieldKind(T, k))]

\* a map[string]interface{} argument: nil, or the map m
NilMap == [nil |-> TRUE, m |-> <<>>]
MapOf(m) == [nil |-> FALSE, m |-> m]

(***************************************************************************)
(* Controller.Validate.                                                    *)
(***************************************************************************)
\* regexp.MustCompile("^[a-zA-Z0-9.!#$%&'*+\/=?^_`{|}~-]+@[a-zA-Z0-9](?:...)*$")
emailRegex == "email"

\* Regexp.MatchString on the strings the model uses
MatchString(re, str) ==
    IF re = emailRegex THEN str \in {"a@b", "a@bcde"}
    ELSE IF re = "^[0-9]$" THEN str \in {"7"}
    ELSE FALSE

\* Controller.validateFieldRequired
validateFieldRequired(valueField, canBeZero) ==
    IF valueField.t = "string" /\ valueField.s = "" THEN FALSE
    ELSE IF valueField.t = "int" /\ valueField.i = 0 /\ ~canBeZero THEN FALSE
    ELSE IF valueField.t = "int64" /\ valueField.i = 0 /\ ~canBeZero THEN FALSE
    ELSE TRUE

\* Controller.validateFieldLength
validateFieldLength(valueField, length) ==
    IF valueField.t # "string" THEN TRUE
    ELSE IF length[1] > -1 /\ Len(valueField.s) < length[1] THEN FALSE
    ELSE IF length[2] > -1 /\ Len(valueField.s) > length[2] THEN FALSE
    ELSE TRUE

\* Controller.validateFieldValue
validateFieldValue(valueField, value, minIsZero, maxIsZero) ==
    IF valueField.t # "int" /\ valueField.t # "int64" THEN TRUE
    ELSE IF ((minIsZero /\ value[1] = 0) \/ value[1] # 0) /\ valueField.i < value[1]
         THEN FALSE
    ELSE IF ((maxIsZero /\ value[2] = 0) \/ value[2] # 0) /\ valueField.i > value[2]
         THEN FALSE
    ELSE TRUE

\* Controller.validateFieldEmail
validateFieldEmail(valueField) ==
    IF valueField.t # "string" THEN TRUE
    ELSE MatchString(emailRegex, valueField.s)

\* Controller.validateFieldRegExp
validateFieldRegExp(valueField, re) ==
    IF valueField.t # "string" THEN TRUE
    ELSE MatchString(re, valueField.s)

\* Controller.isKeyInMap
isKeyInMap(k, m) == \E key \in DOMAIN m : key = k

\* the keys of the Helper table a loop of Validate ranges over
tableKeys(h, cat) ==
    CASE cat = "required" -> h.fieldsRequired
      [] cat = "length"   -> DOMAIN h.fieldsLength
      [] cat = "value"    -> DOMAIN h.fieldsValue
      [] cat = "email"    -> h.fieldsEmail
      [] cat = "regexp"   -> DOMAIN h.fieldsRegExp

\* the validateField* call of one loop of Validate on one value
validateField(h, cat, k, valueField) ==
    CASE cat = "length" -> validateFieldLength(valueField, h.fieldsLength[k])
      [] cat = "value"  -> validateFieldValue(valueField, h.fieldsValue[k],
                                              h.fieldsValueNotNil[k][1],
                                              h.fieldsValueNotNil[k][2])
      [] cat = "email"  -> validateFieldEmail(valueField)
      [] cat = "regexp" -> validateFieldRegExp(valueField, h.fieldsRegExp[k])

\* the body of the "required" loop of Validate for key k: what it appends
requiredBody(h, obj, k) ==
    LET canBeZero == h.fieldsValueNotNil[k][1] \/ h.fieldsValueNotNil[k][2]
    IN  IF ~validateFieldRequired(obj[k], canBeZero) THEN <<k>> ELSE <<>>

\* a loop body that checks the field of obj when the filters lack the key
loopBodyEveryField(h, T, cat, obj, filters, k) ==
    LET inMap      == ~filters.nil /\ isKeyInMap(k, filters.m)
        mismatch   == inMap /\ filters.m[k].t # FieldKind(T, k)
        valueField == IF inMap THEN filters.m[k] ELSE obj[k]
    IN  (IF mismatch THEN <<k>> ELSE <<>>)
        \o (IF ~validateField(h, cat, k, valueField) THEN <<k>> ELSE <<>>)

\* the body of the length, value, email and regexp loops of Validate for key
\* k: what it appends to failedFields
loopBody(h, T, cat, obj, filters, k) ==
    IF ~filters.nil /\ ~isKeyInMap(k, filters.m) THEN <<>>
    ELSE LET mismatch   == ~filters.nil /\ filters.m[k].t # FieldKind(T, k)
             valueField == IF ~filters.nil THEN filters.m[k] ELSE obj[k]
         IN  (IF mismatch THEN <<k>> ELSE <<>>)
             \o (IF ~validateField(h, cat, k, valueField) THEN <<k>> ELSE <<>>)

\* one loop of Validate over the keys of its table, from the j-th field on.
\* Go ranges over a map in an unspecified order; the model takes the order of
\* declaration
RECURSIVE failedFrom(_, _, _, _, _, _)
failedFrom(h, T, cat, obj, filters, j) ==
    IF j > Len(h.fields) THEN <<>>
    ELSE LET k    == h.fields[j]
             here == IF k \notin tableKeys(h, cat) THEN <<>>
                     ELSE IF cat = "required"
                          THEN IF filters.nil THEN requiredBody(h, obj, k) ELSE <<>>
                          ELSE loopBody(h, T, cat, obj, filters, k)
         IN  here \o failedFrom(h, T, cat, obj, filters, j + 1)

Categories == <<"required", "length", "value", "email", "regexp">>

\* Controller.Validate, after getHelper: b, failedFields and, for each loop,
\* what that loop appended
Validate(h, T, obj, filters) ==
    LET by == [cat \in {Categories[n] : n \in 1..Len(Categories)} |->
                  failedFrom(h, T, cat, obj, filters, 1)]
        failedFields == by["required"] \o by["length"] \o by["value"]
                        \o by["email"] \o by["regexp"]
    IN  [b |-> failedFields = <<>>, failedFields |-> failedFields, by |-> by]

\* a Validate that zeroes the instance it has looked at
ValidateResetting(T, obj, filters) ==
    [obj |-> [k \in DOMAIN obj |-> [t |-> obj[k].t, i |-> 0, s |-> ""]], filters |-> filters]

\* Controller.Validate: the instance and the filter map after the call; Validate
\* reads them through reflect.Value and stores nothing
ValidateLeaves(T, obj, filters) == [obj |-> obj, filters |-> filters]

(***************************************************************************)
(* Helper.GetQuerySelect and Controller.GetFiltersInterfaces.  Go ranges   *)
(* over a map in an unspecified order: iter is the order one range loop    *)
(* takes, a sequence that lists every key of the map once.                 *)
(***************************************************************************)
\* the orders in which a range loop may visit the keys S
RECURSIVE Perms(_)
Perms(S) ==
    IF S = {} THEN {<<>>}
    ELSE UNION {{<<x>> \o p : p \in Perms(S \ {x})} : x \in S}

\* the ORDER BY part: order holds pairs (field or column, direction)
RECURSIVE qOrderFrom(_, _, _)
qOrderFrom(h, order, i) ==
    IF i + 1 > Len(order) THEN <<>>
    ELSE LET k == order[i]
             v == order[i + 1]
             isField == k \in DOMAIN h.dbFieldCols
             isCol   == Chars(k) \in DOMAIN h.dbCols
             d == IF v = "desc" THEN "DESC" ELSE "ASC"
             here == IF ~isField /\ ~isCol THEN <<>>
                     ELSE IF isField THEN <<<<h.dbFieldCols[k], d>>>>
                     ELSE <<<<Chars(k), d>>>>
         IN  here \o qOrderFrom(h, order, i + 2)

\* the LIMIT and OFFSET part
qLimitOffset(limit, offset) ==
    IF limit > 0
    THEN IF offset > 0 THEN <<limit, offset>> ELSE <<limit>>
    ELSE <<>>

\* the columns of the filters that are fields of the type, in the order the
\* range loop visits the keys
RECURSIVE filterCols(_, _, _)
filterCols(h, iter, n) ==
    IF n > Len(iter) THEN <<>>
    ELSE (IF iter[n] \notin DOMAIN h.dbFieldCols THEN <<>>
          ELSE <<h.dbFieldCols[iter[n]]>>)
         \o filterCols(h, iter, n + 1)

\* the comparisons of the WHERE part: column = $i, i counting from 1
numbered(cols) == [i \in 1..Len(cols) |-> <<cols[i], i>>]

\* Helper.GetQuerySelect with orderFieldsToInclude and filterFieldsToInclude
\* nil, as GetFromDB calls it: the statement as its parts
GetQuerySelect(h, order, limit, offset, filters, iter) ==
    [ prefix      |-> h.querySelectPrefix,
      where       |-> IF ~filters.nil /\ DOMAIN filters.m # {}
                      THEN numbered(SortStrings(filterCols(h, iter, 1)))
                      ELSE <<>>,
      order       |-> qOrderFrom(h, order, 1),
      limitOffset |-> qLimitOffset(limit, offset) ]

\* the keys of the range loop as byte strings
RECURSIVE keyBytes(_, _)
keyBytes(iter, n) ==
    IF n > Len(iter) THEN <<>> ELSE <<Chars(iter[n])>> \o keyBytes(iter, n + 1)

\* Controller.GetFiltersInterfaces: the map values in the order of the sorted keys
GetFiltersInterfaces(mf, iter) ==
    IF ~mf.nil /\ DOMAIN mf.m # {}
    THEN LET sorted == SortStrings(keyBytes(iter, 1))
         IN  [i \in 1..Len(sorted) |->
                 mf.m[CHOOSE k \in DOMAIN mf.m : Chars(k) = sorted[i]]]
    ELSE <<>>

(***************************************************************************)
(* The database handle: one table, created by CreateDBTable for the record *)
(* type.  A column holds [t, i, s], t the column type.  Every statement    *)
(* can fail in the backend (ok = FALSE), and then changes nothing.         *)
(***************************************************************************)
\* database/sql: a Go argument as the value the driver sends
ToDB(v) ==
    IF v.t = "string" THEN [t |-> "VARCHAR", i |-> 0, s |-> v.s]
    ELSE [t |-> "BIGINT", i |-> v.i, s |-> ""]

\* a Scan that stores numbers only and leaves a string destination empty
ScanNumbersOnly(dbv, kind) == [t |-> kind, i |-> dbv.i, s |-> ""]

\* Rows.Scan: a column value stored through a pointer to a field of a kind
Scan(dbv, kind) == [t |-> kind, i |-> dbv.i, s |-> dbv.s]

\* the DEFAULT of a column type in CREATE TABLE
DefaultOf(coltype) ==
    IF coltype = "VARCHAR" THEN [t |-> "VARCHAR", i |-> 0, s |-> ""]
    ELSE [t |-> "BIGINT", i |-> 0, s |-> ""]

\* the place of x in the sequence q (0 when absent)
IndexOf(q, x) == IF \E n \in 1..Len(q) : q[n] = x
                 THEN CHOOSE n \in 1..Len(q) : q[n] = x ELSE 0

\* INSERT INTO tbl(cols) VALUES ($..) RETURNING id: the row it adds under id
InsertedRow(create, q, args, id) ==
    [col \in {create.cols[n][1] : n \in 1..Len(create.cols)} |->
        LET ctype == create.cols[IndexOf([n \in 1..Len(create.cols) |-> create.cols[n][1]], col)][2]
        IN  IF ctype = "SERIAL" THEN [t |-> "BIGINT", i |-> id, s |-> ""]
            ELSE IF IndexOf(q.cols, col) # 0
                 THEN ToDB(args[q.vals[IndexOf(q.cols, col)]])
                 ELSE DefaultOf(ctype)]

\* UPDATE tbl SET col=$n,.. WHERE id = $m: the table after it
UpdatedTable(tbl, q, args) ==
    LET id == args[q.whereArg].i
        setCols == [n \in 1..Len(q.set) |-> q.set[n][1]]
    IN  IF id \notin DOMAIN tbl THEN tbl
        ELSE [tbl EXCEPT ![id] =
                 [col \in DOMAIN tbl[id] |->
                     IF IndexOf(setCols, col) # 0
                     THEN ToDB(args[q.set[IndexOf(setCols, col)][2]])
                     ELSE tbl[id][col]]]

\* a DELETE whose WHERE matches no row
DeletedNothing(tbl, q, args) == tbl

\* DELETE FROM tbl WHERE id = $1: the table after it
DeletedTable(tbl, q, args) ==
    LET id == args[q.whereArg].i
    IN  [r \in (DOMAIN tbl) \ {id} |-> tbl[r]]

\* SELECT cols FROM tbl WHERE id = $1: the columns of the row, in the order
\* of the statement
SelectedRow(tbl, q, args) ==
    LET id == args[q.whereArg].i
    IN  [n \in 1..Len(q.cols) |-> tbl[id][q.cols[n]]]

(***************************************************************************)
(* Controller: the accessors of a record instance.                         *)
(***************************************************************************)
\* a GetModelIDValue that reads 0 whatever the ID
GetModelIDValueZero(obj) == 0

\* Controller.GetModelIDValue
GetModelIDValue(obj) == obj["ID"].i

\* Controller.GetModelIDInterface: the reference to the ID field
GetModelIDInterface == "ID"

\* Controller.GetModelFieldInterfaces: the references to the scalar fields
\* from the second field on, in the order of declaration
RECURSIVE fieldInterfacesFrom(_, _)
fieldInterfacesFrom(T, j) ==
    IF j > Len(T.fields) THEN <<>>
    ELSE (IF IsScalar(T.fields[j].kind) THEN <<T.fields[j].name>> ELSE <<>>)
         \o fieldInterfacesFrom(T, j + 1)

\* a GetModelFieldInterfaces that starts at the first field
GetModelFieldInterfacesFromFirst(T) == fieldInterfacesFrom(T, 1)

GetModelFieldInterfaces(T) == fieldInterfacesFrom(T, 2)

\* the values behind a list of references
Deref(obj, refs) == [n \in 1..Len(refs) |-> obj[refs[n]]]

\* a ResetFields that zeroes the numbers and the pointers but not the strings
ResetFieldsButStrings(T, obj) ==
    [k \in DOMAIN obj |->
        IF FieldKind(T, k) \in {"ptr", "int64", "int"}
        THEN ZeroValue(FieldKind(T, k)) ELSE obj[k]]

\* Controller.ResetFields
ResetFields(T, obj) ==
    [k \in DOMAIN obj |->
        IF FieldKind(T, k) \in {"ptr", "int64", "int", "string"}
        THEN ZeroValue(FieldKind(T, k)) ELSE obj[k]]

\* Rows.Scan(dests...): the instance with the row stored through the references
ScanInto(T, obj, refs, row) ==
    [k \in DOMAIN obj |->
        IF IndexOf(refs, k) # 0 THEN Scan(row[IndexOf(refs, k)], FieldKind(T, k))
        ELSE obj[k]]

\* the Helper NewHelper(obj, c.dbTblPrefix, "", nil) returns for each of the
\* record types, by the name of the type
BuiltHelpers ==
    [n \in {T.name : T \in RecordTypes} |->
        NewHelper(CHOOSE T \in RecordTypes : T.name = n, dbTblPrefix, "")] @@ <<>>

\* the Helper NewController's cache receives for Item on its first use
ItemHelper == BuiltHelpers[Item.name]

\* the NewHelper(obj, c.dbTblPrefix, "", nil) of getHelper
builtHelper(T) == BuiltHelpers[T.name]

\* the Helper initHelper builds for a type under the name forceName, from a
\* source Helper of type name srcTyp
ItemHelperForced == NewHelperFrom(Item, dbTblPrefix, Item.name, ItemHelper)
forcedHelper(T, forceName, src) ==
    IF T = Item /\ forceName = Item.name /\ src.typ = Item.name THEN ItemHelperForced
    ELSE NewHelperFrom(T, dbTblPrefix, forceName, src)

\* &Helper{}: a Helper lives at an address no Helper of the cache has
maxPtr(helpers) ==
    IF DOMAIN helpers = {} THEN 0
    ELSE CHOOSE p \in {helpers[n].ptr : n \in DOMAIN helpers} :
             \A n \in DOMAIN helpers : helpers[n].ptr <= p
Allocated(h, helpers) == Merge([ptr |-> maxPtr(helpers) + 1], h)

\* c.modelHelpers[n] = h, for a Helper just built
cacheStore(helpers, n, h) ==
    [k \in (DOMAIN helpers) \cup {n} |-> IF k = n THEN Allocated(h, helpers) ELSE helpers[k]]

\* Controller.getHelper has returned an ErrController with Op "GetHelper":
\* helpers, the cache after the call, does not hold the type
getHelperErr(helpers, T) == T.name \notin DOMAIN helpers

\* Controller.getHelper: the cache after the call; the Helper is built on the
\* first use of the type name
getHelper(helpers, T) ==
    IF T.name \in DOMAIN helpers THEN helpers
    ELSE LET built(h) == IF h.err # "nil" THEN helpers ELSE cacheStore(helpers, T.name, h)
         IN  built(builtHelper(T))

\* a constructor function is the record type of the instances it returns; the
\* nil function is NilFunc
NilFunc == [name |-> "nil", fields |-> <<>>]

\* Controller.initHelper: the cache after the call.  The Helper built replaces
\* the one the cache holds for the name of the type
initHelper(helpers, newObjFunc, forceName, sourceHelper) ==
    IF newObjFunc = NilFunc THEN helpers
    ELSE LET built(h) == IF h.err # "nil" THEN helpers
                         ELSE cacheStore(helpers, newObjFunc.name, h)
         IN  built(forcedHelper(newObjFunc, forceName, sourceHelper))

\* the constructor parameters of GetHTTPHandler, in the order in which
\* initHelpersForHTTPHandler goes through them
FuncOrder == <<"newObjFunc", "newObjCreateFunc", "newObjReadFunc", "newObjUpdateFunc",
               "newObjDeleteFunc", "newObjListFunc">>

\* the calls of initHelper from parameter j on, with the Helper h of newObjFunc
RECURSIVE initHelpersFrom(_, _, _, _, _)
initHelpersFrom(helpers, funcs, j, forceName, h) ==
    IF j > Len(FuncOrder) THEN helpers
    ELSE initHelpersFrom(initHelper(helpers, funcs[FuncOrder[j]], forceName, h),
                         funcs, j + 1, forceName, h)

\* Controller.initHelpersForHTTPHandler: the cache after it
initHelpersForHTTPHandler(helpers, funcs) ==
    LET got(hs) ==
            IF getHelperErr(hs, funcs.newObjFunc) THEN hs
            ELSE initHelpersFrom(hs, funcs, 2, funcs.newObjFunc.name, hs[funcs.newObjFunc.name])
    IN  got(getHelper(helpers, funcs.newObjFunc))

(***************************************************************************)
(* Controller: SaveToDB, SetFromDB, DeleteFromDB.  Each operator gives the *)
(* outcome of one call: the helper cache, the table, the identity          *)
(* sequence and the instance after it, the Op of the error returned        *)
(* ("nil" for no error), the failed fields of a validation error and the   *)
(* statements sent to the database handle.  ok tells whether the backend   *)
(* carries out the statement.                                              *)
(***************************************************************************)
\* an outcome whose error carries no field names
OutcomeWithoutFields(helpers, tbl, ser, obj, err, fields, stmts) ==
    [helpers |-> helpers, table |-> tbl, serial |-> ser, obj |-> obj,
     err |-> err, fields |-> <<>>, stmts |-> stmts, wraps |-> "nil"]

Outcome(helpers, tbl, ser, obj, err, fields, stmts) ==
    [helpers |-> helpers, table |-> tbl, serial |-> ser, obj |-> obj,
     err |-> err, fields |-> fields, stmts |-> stmts, wraps |-> "nil"]

\* Err: fmt.Errorf(".. %w", e) of the ErrController returned: the error that Err
\* wraps.  "strconv" is the error of strconv.Atoi, "db" the error the database
\* handle returned, and "nil" a nil error value
Wrapping(o, e) == [o EXCEPT !.wraps = e]

\* Controller.SaveToDB
SaveToDBOutcome(helpers, tbl, ser, T, obj, ok) ==
    LET validated(hs, h, v) ==
            IF ~v.b THEN Outcome(hs, tbl, ser, obj, "Validate", v.failedFields, <<>>)
            ELSE IF GetModelIDValue(obj) # 0
            THEN LET q    == h.queryUpdateById
                     args == Deref(obj, GetModelFieldInterfaces(T) \o <<GetModelIDInterface>>)
                 IN  IF ok THEN Outcome(hs, UpdatedTable(tbl, q, args), ser, obj, "nil", <<>>, <<q.op>>)
                     ELSE Wrapping(Outcome(hs, tbl, ser, obj, "DBQuery", <<>>, <<q.op>>), "db")
            ELSE LET q    == h.queryInsert
                     id   == ser + 1
                     inserted(row) ==
                         Outcome(hs, [r \in (DOMAIN tbl) \cup {id} |-> IF r = id THEN row ELSE tbl[r]],
                                 id,
                                 [obj EXCEPT ![GetModelIDInterface] =
                                     Scan(row[q.returning], FieldKind(T, "ID"))],
                                 "nil", <<>>, <<q.op>>)
                 IN  IF ok
                     THEN inserted(InsertedRow(h.queryCreateTable, q,
                                               Deref(obj, GetModelFieldInterfaces(T)), id))
                     ELSE Wrapping(Outcome(hs, tbl, ser, obj, "DBQuery", <<>>, <<q.op>>), "db")
        got(hs) ==
            IF getHelperErr(hs, T) THEN Outcome(hs, tbl, ser, obj, "GetHelper", <<>>, <<>>)
            ELSE validated(hs, hs[T.name], Validate(hs[T.name], T, obj, NilMap))
    IN  got(getHelper(helpers, T))

\* Controller.SetFromDB.  The ErrController of Op "DBQuery" is built with err,
\* the error of strconv.Atoi, which is nil once the id has been converted; the
\* error QueryRow(..).Scan(..) returned is err3
SetFromDBOutcome(helpers, tbl, ser, T, obj, id, ok) ==
    LET got(hs, a, refs) ==
            LET q    == hs[T.name].querySelectById
                atoiErr == IF a.err THEN "strconv" ELSE "nil"
                args == <<Int64Val(a.n)>>
            IN  IF getHelperErr(hs, T) THEN Outcome(hs, tbl, ser, obj, "GetHelper", <<>>, <<>>)
                ELSE IF ~ok
                     THEN Wrapping(Outcome(hs, tbl, ser, obj, "DBQuery", <<>>, <<q.op>>), atoiErr)
                ELSE IF a.n \notin DOMAIN tbl
                     THEN Outcome(hs, tbl, ser, ResetFields(T, obj), "nil", <<>>, <<q.op>>)
                ELSE IF Len(refs) # Len(q.cols)
                     THEN Wrapping(Outcome(hs, tbl, ser, obj, "DBQuery", <<>>, <<q.op>>), atoiErr)
                ELSE Outcome(hs, tbl, ser, ScanInto(T, obj, refs, SelectedRow(tbl, q, args)),
                             "nil", <<>>, <<q.op>>)
        parsed(a) ==
            IF a.err
            THEN Wrapping(Outcome(helpers, tbl, ser, obj, "IDToInt", <<>>, <<>>), "strconv")
            ELSE got(getHelper(helpers, T), a,
                     <<GetModelIDInterface>> \o GetModelFieldInterfaces(T))
    IN  parsed(Atoi(id))

\* a DeleteFromDB that zeroes the instance before the statement is sent
DeleteFromDBZeroingFirst(helpers, tbl, ser, T, obj, ok) ==
    LET got(hs) ==
            LET q == hs[T.name].queryDeleteById
            IN  IF getHelperErr(hs, T) THEN Outcome(hs, tbl, ser, obj, "GetHelper", <<>>, <<>>)
                ELSE IF ~ok
                     THEN Wrapping(Outcome(hs, tbl, ser, ResetFields(T, obj), "DBQuery",
                                           <<>>, <<q.op>>), "db")
                ELSE Outcome(hs, DeletedTable(tbl, q, Deref(obj, <<GetModelIDInterface>>)), ser,
                             ResetFields(T, obj), "nil", <<>>, <<q.op>>)
    IN  got(getHelper(helpers, T))

\* Controller.DeleteFromDB
DeleteFromDBOutcome(helpers, tbl, ser, T, obj, ok) ==
    LET got(hs) ==
            LET q == hs[T.name].queryDeleteById
            IN  IF getHelperErr(hs, T) THEN Outcome(hs, tbl, ser, obj, "GetHelper", <<>>, <<>>)
                ELSE IF GetModelIDValue(obj) = 0 THEN Outcome(hs, tbl, ser, obj, "nil", <<>>, <<>>)
                ELSE IF ~ok
                     THEN Wrapping(Outcome(hs, tbl, ser, obj, "DBQuery", <<>>, <<q.op>>), "db")
                ELSE Outcome(hs, DeletedTable(tbl, q, Deref(obj, <<GetModelIDInterface>>)), ser,
                             ResetFields(T, obj), "nil", <<>>, <<q.op>>)
    IN  got(getHelper(helpers, T))

(***************************************************************************)
(* Controller.GetFromDB and the SELECT it sends.                           *)
(***************************************************************************)
\* the rows a SELECT .. WHERE col=$i AND .. keeps
MatchingIDs(tbl, where, args) ==
    {id \in DOMAIN tbl :
        \A n \in 1..Len(where) : tbl[id][where[n][1]] = ToDB(args[where[n][2]])}

\* ORDER BY one integer column: the ids in the order of the result; rows that
\* compare equal, and rows of a statement without ORDER BY, come by id
RECURSIVE OrderedIDs(_, _, _)
OrderedIDs(tbl, ids, order) ==
    IF ids = {} THEN <<>>
    ELSE LET key(id) == IF order = <<>> THEN 0
                        ELSE IF order[1][2] = "DESC" THEN 0 - tbl[id][order[1][1]].i
                        ELSE tbl[id][order[1][1]].i
             first == CHOOSE id \in ids :
                          \A other \in ids :
                              \/ key(id) < key(other)
                              \/ key(id) = key(other) /\ id <= other
         IN  <<first>> \o OrderedIDs(tbl, ids \ {first}, order)

\* LIMIT n OFFSET m on the ordered rows
Limited(rows, limitOffset) ==
    IF limitOffset = <<>> THEN rows
    ELSE LET offset == IF Len(limitOffset) = 2 THEN limitOffset[2] ELSE 0
             until  == IF offset + limitOffset[1] < Len(rows)
                       THEN offset + limitOffset[1] ELSE Len(rows)
         IN  SubSeq(rows, offset + 1, until)

\* the rows of the SELECT of GetQuerySelect, each as its columns in the order
\* of the statement
SelectedRows(tbl, sql, args) ==
    LET ids == Limited(OrderedIDs(tbl, MatchingIDs(tbl, sql.where, args), sql.order),
                       sql.limitOffset)
    IN  [n \in 1..Len(ids) |-> [c \in 1..Len(sql.prefix.cols) |-> tbl[ids[n]][sql.prefix.cols[c]]]]

\* Controller.GetFromDB.  v is the result of its call of Validate on a new
\* object with the filters; iter1 and iter2 are the orders in which
\* GetQuerySelect and GetFiltersInterfaces range over the filters.  The
\* database handle rejects a statement whose placeholders and arguments differ
\* in number
GetFromDBOutcome(hs, v, tbl, T, order, limit, offset, filters, iter1, iter2, ok) ==
    LET h    == hs[T.name]
        sql  == GetQuerySelect(h, order, limit, offset, filters, iter1)
        args == GetFiltersInterfaces(filters, iter2)
        refs == <<GetModelIDInterface>> \o GetModelFieldInterfaces(T)
        none == [helpers |-> hs, done |-> TRUE, err |-> "nil", fields |-> <<>>,
                 queried |-> FALSE, sql |-> <<>>, args |-> <<>>, items |-> <<>>]
    IN  IF ~v.b THEN [none EXCEPT !.err = "ValidateFilters", !.fields = v.failedFields]
        ELSE IF ~ok \/ Len(args) # Len(sql.where)
        THEN [none EXCEPT !.err = "DBQuery", !.queried = TRUE, !.sql = sql, !.args = args]
        ELSE LET rows == SelectedRows(tbl, sql, args)
             IN  IF Len(refs) # Len(sql.prefix.cols)
                 THEN [none EXCEPT !.err = IF rows = <<>> THEN "nil" ELSE "DBQueryRowsScan",
                                   !.queried = TRUE, !.sql = sql, !.args = args]
                 ELSE [none EXCEPT !.queried = TRUE, !.sql = sql, !.args = args,
                                   !.items = [n \in 1..Len(rows) |->
                                                 ScanInto(T, NewObj(T), refs, rows[n])]]

(***************************************************************************)
(* The caller of the Controller: it holds the instances ts and ts2, fills  *)
(* them with data and passes them to the Controller.                       *)
(***************************************************************************)
Slots == {"ts", "ts2"}

\* the field values a caller gives an instance (ID and Parent aside)
WithData(flags, name, email, age, hits, code, note, memo) ==
    [Flags |-> Int64Val(flags), Name |-> StrVal(name), Email |-> StrVal(email),
     Age |-> IntVal(age), Hits |-> IntVal(hits), Code |-> StrVal(code),
     Note |-> StrVal(note), Memo |-> StrVal(memo), Parent |-> PtrVal(1)]

\* the data sets of the caller: two that pass validation and one without the
\* required Name
DataSets ==
    { WithData(1, "ab", "a@b", 0, 1, "7", "", ""),
      WithData(0, "abcd", "a@b", 2, 2, "7", "", ""),
      WithData(1, "", "a@b", 1, 1, "7", "", "") }

\* the instance with the fields of data, its ID kept
SetData(obj, data) == [k \in DOMAIN obj |-> IF k \in DOMAIN data THEN data[k] ELSE obj[k]]

\* the ids a caller passes to SetFromDB: the decimal ids, and one that is no number
IDStrings == {FormatInt(n) : n \in 1..MaxID} \cup {<<120>>}

\* ret: the operation, the instance it was called on, the Op of the error it
\* returned and the failed fields of a validation error, the statements it
\* sent, the id it bound to a statement that works by id, and whether the
\* backend carried out what was sent
NoRet == [op |-> "none", slot |-> "ts", err |-> "nil", fields |-> <<>>, stmts |-> <<>>,
          id |-> <<>>, ok |-> TRUE, wraps |-> "nil"]

CallRet(op, slot, o, id, ok) ==
    [op |-> op, slot |-> slot, err |-> o.err, fields |-> o.fields, stmts |-> o.stmts,
     id |-> IF o.stmts = <<>> /\ op # "SetFromDB" THEN <<>> ELSE id,
     ok |-> o.stmts = <<>> \/ ok,
     wraps |-> o.wraps]

Apply(slot, o) ==
    /\ modelHelpers' = o.helpers
    /\ table' = o.table
    /\ serial' = o.serial
    /\ objs' = [objs EXCEPT ![slot] = o.obj]

\* ts := &Item{}
New(slot) ==
    /\ objs' = [objs EXCEPT ![slot] = NewObj(recType)]
    /\ ret' = NoRet
    /\ UNCHANGED <<modelHelpers, table, serial, vIn, vOut, qIn, qOut, recType, handlers, resp, goroutines, linked, named>>

\* ts.Flags = ..; ts.Name = ..; and so on
SetFields(slot) ==
    \E data \in DataSets :
        /\ objs' = [objs EXCEPT ![slot] = SetData(objs[slot], data)]
        /\ ret' = NoRet
        /\ UNCHANGED <<modelHelpers, table, serial, vIn, vOut, qIn, qOut, recType, handlers, resp, goroutines, linked, named>>

\* ts.ID = n
SetID(slot) ==
    \E n \in 0..MaxID :
        /\ objs' = [objs EXCEPT ![slot]["ID"] = Int64Val(n)]
        /\ ret' = NoRet
        /\ UNCHANGED <<modelHelpers, table, serial, vIn, vOut, qIn, qOut, recType, handlers, resp, goroutines, linked, named>>

\* c.SaveToDB(ts); the identity sequence hands out at most MaxID ids
SaveToDB(slot) ==
    \E ok \in BOOLEAN :
        \E o \in {SaveToDBOutcome(modelHelpers, table, serial, recType, objs[slot], ok)} :
        /\ o.serial <= MaxID
        /\ Apply(slot, o)
        /\ ret' = CallRet("SaveToDB", slot, o, <<>>, ok)
        /\ UNCHANGED <<vIn, vOut, qIn, qOut, recType, handlers, resp, goroutines, linked, named>>

\* c.SetFromDB(ts, id)
SetFromDB(slot) ==
    \E id \in IDStrings, ok \in BOOLEAN :
        \E o \in {SetFromDBOutcome(modelHelpers, table, serial, recType, objs[slot], id, ok)} :
        /\ Apply(slot, o)
        /\ ret' = CallRet("SetFromDB", slot, o, id, ok)
        /\ UNCHANGED <<vIn, vOut, qIn, qOut, recType, handlers, resp, goroutines, linked, named>>

\* c.DeleteFromDB(ts)
DeleteFromDB(slot) ==
    \E ok \in BOOLEAN :
        \E o \in {DeleteFromDBOutcome(modelHelpers, table, serial, recType, objs[slot], ok)} :
        /\ Apply(slot, o)
        /\ ret' = CallRet("DeleteFromDB", slot, o, FormatInt(GetModelIDValue(objs[slot])), ok)
        /\ UNCHANGED <<vIn, vOut, qIn, qOut, recType, handlers, resp, goroutines, linked, named>>

\* the inputs and results of the specifications of Validate and of the list
\* query, unused here
NoValidate == [obj |-> NewObj(Item), filters |-> NilMap]
NoResponse == [method |-> "none"]

\* the goroutines that use the Controller at the same time
NumProcs == 2
Procs == 1..NumProcs

\* a goroutine that is not inside getHelper and has no access to the map open
Idle == [pc |-> "idle", acc |-> "none", typ |-> "none"]
NoGoroutines == [p \in Procs |-> Idle]
NoResult == [done |-> FALSE]
NoLinked == [op |-> "none"]
NoNamed == [name |-> <<>>, dbTblPrefix |-> <<>>, dbColPrefix |-> <<>>, dbTbl |-> <<>>]

\* NewController and an empty table
Init ==
    /\ modelHelpers = <<>>
    /\ table = <<>>
    /\ serial = 0
    /\ recType = Item
    /\ handlers = 0
    /\ resp = NoResponse
    /\ goroutines = NoGoroutines
    /\ linked = NoLinked
    /\ named = NoNamed
    /\ objs = [slot \in Slots |-> NewObj(Item)]
    /\ ret = NoRet
    /\ vIn = NoValidate
    /\ vOut = NoResult
    /\ qIn = NoResult
    /\ qOut = NoResult

\* ts is filled by the caller; ts2 only receives what the Controller loads
Next ==
    \/ SetFields("ts")
    \/ SetID("ts")
    \/ SaveToDB("ts")
    \/ DeleteFromDB("ts")
    \/ \E slot \in Slots :
          \/ New(slot)
          \/ SetFromDB(slot)

Spec == Init /\ [][Next]_vars

\* the same caller with instances of any of the record types, and one instance
InitTypes ==
    /\ modelHelpers = <<>>
    /\ table = <<>>
    /\ serial = 0
    /\ recType \in RecordTypes
    /\ handlers = 0
    /\ resp = NoResponse
    /\ goroutines = NoGoroutines
    /\ linked = NoLinked
    /\ named = NoNamed
    /\ objs = [slot \in Slots |-> NewObj(recType)]
    /\ ret = NoRet
    /\ vIn = NoValidate
    /\ vOut = NoResult
    /\ qIn = NoResult
    /\ qOut = NoResult

NextTypes ==
    \/ New("ts")
    \/ SetFields("ts")
    \/ SetID("ts")
    \/ SaveToDB("ts")
    \/ SetFromDB("ts")
    \/ DeleteFromDB("ts")

SpecTypes == InitTypes /\ [][NextTypes]_vars

(***************************************************************************)
(* Properties of SaveToDB, SetFromDB and DeleteFromDB, under Spec.         *)
(***************************************************************************)
\* the ID field of the instance in a slot
IDOf(os, slot) == os[slot]["ID"].i

\* the rows of a table
RowCount(tbl) == Cardinality(DOMAIN tbl)

\* C2: SaveToDB on an instance that passes validation sends the update-by-id
\* statement and no insert when the ID is set, and the table keeps its number
\* of rows; when the ID is 0 it sends the insert, which (carried out by the
\* backend) adds exactly one row and stores the generated id in the ID field.
C2_SaveUpdatesOrInserts ==
    [][ret'.op = "SaveToDB" /\ ret'.err # "Validate" =>
          IF IDOf(objs, ret'.slot) # 0
          THEN /\ ret'.stmts = <<"UPDATE">>
               /\ RowCount(table') = RowCount(table)
               /\ IDOf(objs', ret'.slot) = IDOf(objs, ret'.slot)
          ELSE /\ ret'.stmts = <<"INSERT">>
               /\ ret'.ok =>
                     /\ ret'.err = "nil"
                     /\ RowCount(table') = RowCount(table) + 1
                     /\ IDOf(objs', ret'.slot) # 0
                     /\ DOMAIN table' = (DOMAIN table) \cup {IDOf(objs', ret'.slot)}
                     /\ IDOf(objs', ret'.slot) \notin DOMAIN table
               /\ ~ret'.ok => table' = table /\ objs' = objs]_vars

\* an update of a stored row has succeeded
C2_Witness ==
    /\ ret.op = "SaveToDB" /\ ret.err = "nil" /\ ret.stmts = <<"UPDATE">>
    /\ IDOf(objs, "ts") \in DOMAIN table

\* C3: after an insert by SaveToDB, SetFromDB with the generated id into
\* another instance gives every persistable field of that instance the value
\* of the same field of the saved instance.
C3_RoundTrip ==
    [][ /\ ret.op = "SaveToDB" /\ ret.err = "nil" /\ ret.stmts = <<"INSERT">>
        /\ ret'.op = "SetFromDB" /\ ret'.slot = "ts2" /\ ret'.ok
        /\ ret'.id = FormatInt(IDOf(objs, "ts"))
        => /\ ret'.err = "nil"
           /\ \A k \in ScalarNames(Item) : objs'["ts2"][k] = objs["ts"][k] ]_vars

\* the saved instance has been loaded into ts2
C3_Witness ==
    /\ ret.op = "SetFromDB" /\ ret.slot = "ts2" /\ ret.err = "nil" /\ ret.ok
    /\ IDOf(objs, "ts") # 0
    /\ ret.id = FormatInt(IDOf(objs, "ts"))
    /\ objs["ts"]["Name"].s = "abcd"
    /\ \A k \in ScalarNames(Item) : objs["ts2"][k] = objs["ts"][k]

\* C4: after DeleteFromDB returns without error on an instance whose ID was not
\* 0, every int, int64 and string field of the instance (the ID too) is zero
\* and every pointer is nil, and the row of the old id is gone; the row does
\* not come back, and a SetFromDB with the old id that follows finds no row
\* and leaves the instance zeroed.
C4_DeleteZeroes ==
    [][ /\ (ret'.op = "DeleteFromDB" /\ ret'.err = "nil" /\ IDOf(objs, ret'.slot) # 0) =>
            /\ objs'[ret'.slot] = NewObj(Item)
            /\ IDOf(objs, ret'.slot) \notin DOMAIN table'
            /\ ret'.id = FormatInt(IDOf(objs, ret'.slot))
        /\ \A n \in 1..serial : n \notin DOMAIN table => n \notin DOMAIN table'
        /\ (/\ ret.op = "DeleteFromDB" /\ ret.err = "nil" /\ ret.stmts = <<"DELETE">>
            /\ ret'.op = "SetFromDB" /\ ret'.id = ret.id /\ ret'.ok) =>
            /\ ret'.err = "nil"
            /\ objs'[ret'.slot] = NewObj(Item) ]_vars

\* the row of a saved instance has been deleted, and a SetFromDB with its id
\* has found nothing
C4_Witness ==
    /\ ret.op = "SetFromDB" /\ ret.slot = "ts" /\ ret.err = "nil" /\ ret.ok
    /\ ~Atoi(ret.id).err
    /\ Atoi(ret.id).n \in 1..serial
    /\ Atoi(ret.id).n \notin DOMAIN table
    /\ objs["ts"] = NewObj(Item)

\* C29: DeleteFromDB zeroes the instance only after the delete statement has
\* succeeded: on an instance whose ID is 0 it sends no statement, returns no
\* error and leaves every field and the table as they were, and when the
\* delete statement fails it returns a DBQuery error and leaves every field
\* as it was.
C29_DeleteZeroesOnSuccessOnly ==
    [][ ret'.op = "DeleteFromDB" =>
          /\ IDOf(objs, ret'.slot) = 0 =>
                /\ ret'.stmts = <<>>
                /\ ret'.err = "nil"
                /\ objs' = objs
                /\ table' = table
          /\ (ret'.stmts = <<"DELETE">> /\ ~ret'.ok) =>
                /\ ret'.err = "DBQuery"
                /\ objs' = objs
                /\ table' = table
          /\ objs' # objs =>
                /\ ret'.stmts = <<"DELETE">>
                /\ ret'.ok
                /\ ret'.err = "nil" ]_vars

\* a delete statement has failed on a saved instance, which still holds its
\* id and its name, and whose row is still there
C29_Witness ==
    /\ ret.op = "DeleteFromDB" /\ ret.slot = "ts"
    /\ ret.stmts = <<"DELETE">> /\ ~ret.ok /\ ret.err = "DBQuery"
    /\ IDOf(objs, "ts") \in DOMAIN table
    /\ objs["ts"]["Name"].s = "abcd"

\* C5: SetFromDB with an id for which the table has no row returns no error
\* and leaves the ID and every persistable field of the instance zero,
\* whatever the instance held before.
C5_NoRowZeroes ==
    [][ /\ ret'.op = "SetFromDB" /\ ret'.ok
        /\ ~Atoi(ret'.id).err
        /\ Atoi(ret'.id).n \notin DOMAIN table
        => /\ ret'.err = "nil"
           /\ ret'.stmts = <<"SELECT">>
           /\ objs'[ret'.slot] = NewObj(Item)
           /\ table' = table ]_vars

\* SetFromDB has looked up an id that no row ever had, on a table with rows
C5_Witness ==
    /\ ret.op = "SetFromDB" /\ ret.err = "nil" /\ ret.ok /\ ret.slot = "ts"
    /\ ~Atoi(ret.id).err
    /\ Atoi(ret.id).n > serial
    /\ table # <<>>
    /\ objs["ts"] = NewObj(Item)

\* C21: when the database handle fails the lookup of SetFromDB with an error
\* other than no-rows, SetFromDB returns an error of Op "DBQuery" that wraps
\* the error the database handle returned, and the instance is as it was.
C21_DBQueryWrapsBackendError ==
    [][ /\ ret'.op = "SetFromDB"
        /\ ret'.stmts = <<"SELECT">> /\ ~ret'.ok
        => /\ ret'.err = "DBQuery"
           /\ ret'.wraps = "db"
           /\ objs' = objs ]_vars

\* C26: whenever SaveToDB has returned no error, the table has a row under the
\* ID of the instance and each column of that row holds the value of its
\* field, also when the caller had set the ID before the call.
C26_SavedIsStored ==
    ret.op = "SaveToDB" /\ ret.err = "nil" =>
        /\ IDOf(objs, ret.slot) \in DOMAIN table
        /\ \A k \in ScalarNames(Item) \ {"ID"} :
               table[IDOf(objs, ret.slot)][ItemHelper.dbFieldCols[k]] = ToDB(objs[ret.slot][k])

ValidateObjects ==
    { SetData(NewObj(Item), WithData(flags, name, email, age, hits, code, note, memo)) :
        flags \in {0, 1},
        name  \in {"", "a", "ab", "abcde"},
        email \in {"", "ab", "a@b", "a@bcde"},
        age   \in {-1, 0, 1, 4},
        hits  \in {0, 1},
        code  \in {"", "7", "x"},
        note  \in {"", "n"},
        memo  \in {"", "m"} }

\* the keys and values of the filter maps Validate is called with
FilterKeys == ScalarNames(Item) \cup {"Bogus"}
FilterValues ==
    { Int64Val(0), Int64Val(1), IntVal(0), IntVal(4),
      StrVal(""), StrVal("ab"), StrVal("a@b"), StrVal("abcde") }

\* the filter maps of at most two keys
ValidateFilters ==
    UNION { {MapOf(m) : m \in [keys -> FilterValues]} :
                keys \in {K \in SUBSET FilterKeys : Cardinality(K) <= 2} }

InitValidate ==
    /\ modelHelpers = <<>>
    /\ table = <<>>
    /\ serial = 0
    /\ recType = Item
    /\ handlers = 0
    /\ resp = NoResponse
    /\ goroutines = NoGoroutines
    /\ linked = NoLinked
    /\ named = NoNamed
    /\ objs = [slot \in Slots |-> NewObj(Item)]
    /\ ret = NoRet
    /\ \/ vIn \in [obj : ValidateObjects, filters : {NilMap}]
       \/ vIn \in [obj : {NewObj(Item)}, filters : ValidateFilters]
    /\ vOut = NoResult
    /\ qIn = NoResult
    /\ qOut = NoResult

\* c.Validate(obj, filters)
ValidateCall ==
    /\ ~vOut.done
    /\ modelHelpers' = getHelper(modelHelpers, Item)
    /\ \E v \in {Validate(modelHelpers'[Item.name], Item, vIn.obj, vIn.filters)} :
          vOut' = [done |-> TRUE, b |-> v.b, failedFields |-> v.failedFields, by |-> v.by]
    /\ vIn' = ValidateLeaves(Item, vIn.obj, vIn.filters)
    /\ UNCHANGED <<table, serial, objs, ret, qIn, qOut, recType, handlers, resp, goroutines, linked, named>>

NextValidate == ValidateCall

SpecValidate == InitValidate /\ [][NextValidate]_vars

(***************************************************************************)
(* Properties of Validate, under SpecValidate.                             *)
(***************************************************************************)
\* the tag of field f declares option opt / the value it declares for it
HasOpt(f, opt) == \E n \in 1..Len(f.crud) : f.crud[n].opt = opt
OptOf(f, opt) == Atoi(f.crud[CHOOSE n \in 1..Len(f.crud) : f.crud[n].opt = opt].txt).n

\* the fields one loop of Validate reported
Reported(cat) == {vOut.by[cat][n] : n \in 1..Len(vOut.by[cat])}

\* C7: Validate reports a string field in the length category exactly when its
\* length is below the lenmin of its tag or above the lenmax of its tag; a
\* field without lenmax is never reported as too long, and a field without
\* any length bound is never reported in the length category.
C7_LengthAsDeclared ==
    (vOut.done /\ vIn.filters.nil) =>
        \A k \in ScalarNames(Item) :
            FieldKind(Item, k) = "string" =>
                LET f   == FieldOf(Item, k)
                    len == Len(vIn.obj[k].s)
                IN  k \in Reported("length") <=>
                        \/ HasOpt(f, "lenmin") /\ len < OptOf(f, "lenmin")
                        \/ HasOpt(f, "lenmax") /\ len > OptOf(f, "lenmax")

C9_OnlyFilterKeys ==
    (vOut.done /\ ~vIn.filters.nil) =>
        \A n \in 1..Len(vOut.failedFields) :
            vOut.failedFields[n] \in DOMAIN vIn.filters.m

\* Validate has reported a key of a filter map that lacks the required Name,
\* Age and Hits
C9_Witness ==
    /\ vOut.done /\ ~vIn.filters.nil
    /\ DOMAIN vIn.filters.m = {"Email", "Code"}
    /\ vOut.failedFields # <<>>
    /\ ~vOut.b

NoDuplicates(q) == \A i, j \in 1..Len(q) : q[i] = q[j] => i = j

\* C17: in the failed fields of Validate each name appears at most once for
\* each of the checks required, length, value, email and regexp, for every
\* instance in full-object mode and every filter map in filter mode.
C17_OncePerCategory ==
    vOut.done => \A cat \in DOMAIN vOut.by : NoDuplicates(vOut.by[cat])

(***************************************************************************)
(* The list query on its own: a table with rows, arguments drawn from the  *)
(* values below, and two calls of GetFromDB with the same arguments.       *)
(***************************************************************************)
\* a stored row of the table
StoredRow(id, data) ==
    LET h == ItemHelper
    IN  InsertedRow(h.queryCreateTable, h.queryInsert,
                    Deref(SetData(NewObj(Item), data), GetModelFieldInterfaces(Item)), id)

\* the tables the list query runs on
SeedTables ==
    { <<>>,
      <<StoredRow(1, WithData(1, "ab", "a@b", 0, 1, "7", "", "")),
        StoredRow(2, WithData(0, "abcd", "a@b", 2, 2, "7", "", ""))>> }

\* the filter maps of the list query: up to MaxFilterKeys of these keys, each
\* with one of its values
SelectFilterValues ==
    [ Flags |-> {Int64Val(1)},
      Age   |-> {IntVal(0), IntVal(2)},
      Hits  |-> {IntVal(1)},
      Bogus |-> {IntVal(1)} ]

SelectFilters ==
    {NilMap} \cup
    UNION { {MapOf(m) : m \in {f \in [keys -> UNION {SelectFilterValues[k] : k \in keys}] :
                                   \A k \in keys : f[k] \in SelectFilterValues[k]}} :
                keys \in {K \in SUBSET (DOMAIN SelectFilterValues) :
                               Cardinality(K) <= MaxFilterKeys} }

SelectOrders == { <<>>, <<"Age", "asc">>, <<"Hits", "desc">> }

Calls == {1, 2}

InitSelect ==
    /\ modelHelpers = <<>>
    /\ table \in SeedTables
    /\ serial = Len(table)
    /\ recType = Item
    /\ handlers = 0
    /\ resp = NoResponse
    /\ goroutines = NoGoroutines
    /\ linked = NoLinked
    /\ named = NoNamed
    /\ objs = [slot \in Slots |-> NewObj(Item)]
    /\ ret = NoRet
    /\ vIn = NoValidate
    /\ vOut = NoResult
    /\ qIn \in [order : SelectOrders, limit : {0, 1}, offset : {0, 1},
                filters : SelectFilters]
    /\ qOut = [n \in Calls |-> NoResult]

\* c.GetFromDB(newObjFunc, order, limit, offset, filters), call n
GetFromDB(n) ==
    /\ ~qOut[n].done
    /\ \E hs \in {getHelper(modelHelpers, Item)} :
       \E v \in {Validate(hs[Item.name], Item, NewObj(Item), qIn.filters)} :
       \E ok \in BOOLEAN :
       \E iter1 \in Perms(DOMAIN qIn.filters.m), iter2 \in Perms(DOMAIN qIn.filters.m) :
       \E o \in {GetFromDBOutcome(hs, v, table, Item, qIn.order, qIn.limit,
                                  qIn.offset, qIn.filters, iter1, iter2, ok)} :
          /\ modelHelpers' = o.helpers
          /\ qOut' = [qOut EXCEPT ![n] = [done |-> TRUE, err |-> o.err, fields |-> o.fields,
                                          queried |-> o.queried, sql |-> o.sql,
                                          args |-> o.args, items |-> o.items]]
    /\ UNCHANGED <<table, serial, objs, ret, vIn, vOut, qIn, recType, handlers, resp, goroutines, linked, named>>

NextSelect == \E n \in Calls : GetFromDB(n)

SpecSelect == InitSelect /\ [][NextSelect]_vars

(***************************************************************************)
(* Properties of the list query, under SpecSelect.                         *)
(***************************************************************************)
\* the calls that sent a statement
Queried == {n \in Calls : qOut[n].done /\ qOut[n].queried}

\* C1: for every filter map the bound values of GetFiltersInterfaces are as
\* many as the placeholders of the WHERE of GetQuerySelect, and the i-th
\* value is the map's value for the field whose column is compared with $i.
C1_Lockstep ==
    \A n \in Queried :
        LET where == qOut[n].sql.where
            args  == qOut[n].args
        IN  /\ Len(args) = Len(where)
            /\ \A i \in 1..Len(where) :
                   \E j \in 1..Len(where) :
                       /\ where[j][2] = i
                       /\ args[i] = qIn.filters.m[ItemHelper.dbCols[where[j][1]]]

\* C10: two calls with the same order, limit, offset and filters send the same
\* statement, its WHERE comparisons in ascending order of column name, and
\* bind the same values in the same order, whatever order the map is ranged in.
C10_Deterministic ==
    \A a \in Queried :
        /\ \A b \in Queried : qOut[a].sql = qOut[b].sql /\ qOut[a].args = qOut[b].args
        /\ \A i \in 1..(Len(qOut[a].sql.where) - 1) :
               StrLess(qOut[a].sql.where[i][1], qOut[a].sql.where[i + 1][1])

\* both calls have sent a statement with three comparisons
C10_Witness ==
    /\ Queried = Calls
    /\ Len(qOut[1].sql.where) = 3
    /\ Len(qOut[1].args) = 3
    /\ qOut[1].sql.order # <<>>
    /\ qOut[1].sql.limitOffset # <<>>

\* C28: GetFromDB called with a nil filter map on a record type that has
\* required fields sends the list query; it does not return a
\* ValidateFilters error.
C28_NilFiltersListRows ==
    \A n \in Calls :
        qOut[n].done /\ qIn.filters = NilMap /\ ItemHelper.fieldsRequired # {} =>
            /\ qOut[n].err # "ValidateFilters"
            /\ qOut[n].queried

(***************************************************************************)
(* Claims on the Helper of a record type, under SpecTypes.                 *)
(***************************************************************************)
\* the type has a lenmin, lenmax, valmin or valmax whose value is no integer
HasBadIntTag(T) ==
    \E j \in 1..Len(T.fields) :
        \E n \in 1..Len(T.fields[j].crud) :
            /\ T.fields[j].crud[n].opt \in IntOpts
            /\ Atoi(T.fields[j].crud[n].txt).err

ControllerOps == {"SaveToDB", "SetFromDB", "DeleteFromDB"}

\* C11: for a record type with a lenmin, lenmax, valmin or valmax that is no
\* integer, Err() of its Helper is not nil, and a Controller operation on an
\* instance of it (one that got as far as asking for the Helper) returns the
\* GetHelper error and sends no statement to the database.
C11_BadTagIsError ==
    HasBadIntTag(recType) =>
        /\ recType.name \in DOMAIN modelHelpers => modelHelpers[recType.name].err # "nil"
        /\ (ret.op \in ControllerOps /\ ret.err # "IDToInt") =>
               (ret.err = "GetHelper" /\ ret.stmts = <<>>)

\* C15: for a record type whose first field is ID, with refs the n references
\* of GetModelFieldInterfaces: the i-th column of the insert statement and the
\* i-th SET assignment of the update statement are the column of the field
\* refs[i], the insert has the placeholders $1..$n in this order, the i-th
\* assignment binds $i and the update binds the identity as $(n+1).
C15_ReferencesFollowColumns ==
    (recType.fields[1].name = "ID" /\ recType.name \in DOMAIN modelHelpers) =>
        LET h    == modelHelpers[recType.name]
            refs == GetModelFieldInterfaces(recType)
            n    == Len(refs)
        IN  /\ Len(h.queryInsert.cols) = n
            /\ h.queryInsert.vals = [i \in 1..n |-> i]
            /\ Len(h.queryUpdateById.set) = n
            /\ \A i \in 1..n :
                   /\ h.queryInsert.cols[i] = h.dbFieldCols[refs[i]]
                   /\ h.queryUpdateById.set[i] = <<h.dbFieldCols[refs[i]], i>>
            /\ h.queryUpdateById.whereArg = n + 1

\* an instance of the type with a pointer between its columns was inserted
\* and then updated
C15_Witness ==
    /\ recType = Pair
    /\ recType.name \in DOMAIN modelHelpers
    /\ ret.op = "SaveToDB" /\ ret.err = "nil" /\ ret.stmts = <<"UPDATE">>
    /\ \E id \in DOMAIN table : id = IDOf(objs, "ts")

(***************************************************************************)
(* The HTTP handler of GetHTTPHandler.  A request is its method, the path  *)
(* after the uri (seg, without a query part), its body and, for the        *)
(* statements the handler sends in turn, whether the backend carries them  *)
(* out (oks).  The outcome is the cache, the table and the identity        *)
(* sequence after the request, the status written, the Controller          *)
(* operations called and the statements sent.                              *)
(***************************************************************************)
MaxHandlers == 2

\* Controller.getIDFromURI: the id and whether the handler goes on
getIDFromURI(seg) ==
    IF seg = <<>> THEN [id |-> <<>>, b |-> TRUE]
    ELSE IF \E n \in 1..Len(seg) : ~IsDigit(seg[n]) THEN [id |-> <<>>, b |-> FALSE]
    ELSE [id |-> seg, b |-> TRUE]

\* a dispatch that looks at the method only
routeByMethod(method, id) ==
    IF method = "PUT" THEN [handle |-> "handleHTTPPut", func |-> "newObjCreateFunc"]
    ELSE IF method = "GET" THEN [handle |-> "handleHTTPGet", func |-> "newObjListFunc"]
    ELSE IF method = "DELETE" THEN [handle |-> "handleHTTPDelete", func |-> "newObjFunc"]
    ELSE [handle |-> "none", func |-> "none"]

\* a dispatch that serves an update with the constructor of the base type
routeUpdateToBase(method, id) ==
    IF method = "PUT" /\ id = <<>>
    THEN [handle |-> "handleHTTPPut", func |-> "newObjCreateFunc"]
    ELSE IF method = "PUT" /\ id # <<>>
    THEN [handle |-> "handleHTTPPut", func |-> "newObjFunc"]
    ELSE IF method = "GET" /\ id # <<>>
    THEN [handle |-> "handleHTTPGet", func |-> "newObjReadFunc"]
    ELSE IF method = "GET" /\ id = <<>>
    THEN [handle |-> "handleHTTPGet", func |-> "newObjListFunc"]
    ELSE IF method = "DELETE" /\ id # <<>>
    THEN [handle |-> "handleHTTPDelete", func |-> "newObjFunc"]
    ELSE [handle |-> "none", func |-> "none"]

\* the dispatch of the handler: the function that handles the request and the
\* constructor parameter passed to it
route(method, id) ==
    IF method = "PUT" /\ id = <<>>
    THEN [handle |-> "handleHTTPPut", func |-> "newObjCreateFunc"]
    ELSE IF method = "PUT" /\ id # <<>>
    THEN [handle |-> "handleHTTPPut", func |-> "newObjUpdateFunc"]
    ELSE IF method = "GET" /\ id # <<>>
    THEN [handle |-> "handleHTTPGet", func |-> "newObjReadFunc"]
    ELSE IF method = "GET" /\ id = <<>>
    THEN [handle |-> "handleHTTPGet", func |-> "newObjListFunc"]
    ELSE IF method = "DELETE" /\ id # <<>>
    THEN [handle |-> "handleHTTPDelete", func |-> "newObjFunc"]
    ELSE [handle |-> "none", func |-> "none"]

\* a response after which the cached Helpers have lost their required fields
ResponseForgetting(helpers, tbl, ser, status, ops, stmts) ==
    [helpers |-> [n \in DOMAIN helpers |-> [helpers[n] EXCEPT !.fieldsRequired = {}]],
     table |-> tbl, serial |-> ser, status |-> status, ops |-> ops, stmts |-> stmts]

\* a response that always has status 200
ResponseOK(helpers, tbl, ser, status, ops, stmts) ==
    [helpers |-> helpers, table |-> tbl, serial |-> ser, status |-> 200,
     ops |-> ops, stmts |-> stmts]

\* what a handle function leaves behind
Response(helpers, tbl, ser, status, ops, stmts) ==
    [helpers |-> helpers, table |-> tbl, serial |-> ser, status |-> status,
     ops |-> ops, stmts |-> stmts]

\* json.Unmarshal(body, objClone): the fields the body names are set
Unmarshal(body, obj) == SetData(obj, body.fields)

\* Controller.handleHTTPPut
handleHTTPPut(helpers, tbl, ser, T, id, body, oks) ==
    LET saved(hs2, ops1, stmts1, v, save) ==
            IF ~v.b THEN Response(hs2, tbl, ser, 400, ops1 \o <<"Validate">>, stmts1)
            ELSE IF save.err # "nil"
            THEN Response(hs2, tbl, ser, 500, ops1 \o <<"Validate", "SaveToDB">>,
                          stmts1 \o save.stmts)
            ELSE Response(hs2, save.table, save.serial, 200,
                          ops1 \o <<"Validate", "SaveToDB">>, stmts1 \o save.stmts)
        unmarshalled(hs2, ops1, stmts1, obj2) ==
            saved(hs2, ops1, stmts1, Validate(hs2[T.name], T, obj2, NilMap),
                  SaveToDBOutcome(hs2, tbl, ser, T, obj2, oks[Len(stmts1) + 1]))
        cloned(hs1, ops1, stmts1, objClone) ==
            IF ~body.valid THEN Response(hs1, tbl, ser, 400, ops1, stmts1)
            ELSE unmarshalled(getHelper(hs1, T), ops1, stmts1, Unmarshal(body, objClone))
        loaded(load) ==
            IF load.err # "nil"
            THEN Response(load.helpers, tbl, ser, 500, <<"SetFromDB">>, load.stmts)
            ELSE IF GetModelIDValue(load.obj) = 0
            THEN Response(load.helpers, tbl, ser, 404, <<"SetFromDB">>, load.stmts)
            ELSE cloned(load.helpers, <<"SetFromDB">>, load.stmts, load.obj)
    IN  IF id # <<>>
        THEN loaded(SetFromDBOutcome(helpers, tbl, ser, T, NewObj(T), id, oks[1]))
        ELSE cloned(helpers, <<>>, <<>>, ResetFields(T, NewObj(T)))

\* Controller.handleHTTPGet, for a request without parameters: limit is 10,
\* offset 0, order empty and filters an empty map
handleHTTPGet(helpers, tbl, ser, T, id, oks) ==
    LET listed(hs, o) ==
            LET stmts == IF o.queried THEN <<"SELECT">> ELSE <<>>
            IN  IF o.err = "ValidateFilters"
                THEN Response(hs, tbl, ser, 400, <<"GetFromDB">>, stmts)
                ELSE IF o.err # "nil" THEN Response(hs, tbl, ser, 500, <<"GetFromDB">>, stmts)
                ELSE Response(hs, tbl, ser, 200, <<"GetFromDB">>, stmts)
        got(hs) ==
            listed(hs, GetFromDBOutcome(hs, Validate(hs[T.name], T, NewObj(T), MapOf(<<>>)),
                                        tbl, T, <<>>, 10, 0, MapOf(<<>>), <<>>, <<>>, oks[1]))
        loaded(load) ==
            IF load.err # "nil"
            THEN Response(load.helpers, tbl, ser, 500, <<"SetFromDB">>, load.stmts)
            ELSE IF GetModelIDValue(load.obj) = 0
            THEN Response(load.helpers, tbl, ser, 404, <<"SetFromDB">>, load.stmts)
            ELSE Response(load.helpers, tbl, ser, 200, <<"SetFromDB">>, load.stmts)
    IN  IF id = <<>> THEN got(getHelper(helpers, T))
        ELSE loaded(SetFromDBOutcome(helpers, tbl, ser, T, NewObj(T), id, oks[1]))

\* Controller.handleHTTPDelete
handleHTTPDelete(helpers, tbl, ser, T, id, oks) ==
    LET deleted(load, del) ==
            IF del.err # "nil"
            THEN Response(load.helpers, tbl, ser, 500, <<"SetFromDB", "DeleteFromDB">>,
                          load.stmts \o del.stmts)
            ELSE Response(load.helpers, del.table, ser, 200, <<"SetFromDB", "DeleteFromDB">>,
                          load.stmts \o del.stmts)
        loaded(load) ==
            IF load.err # "nil"
            THEN Response(load.helpers, tbl, ser, 500, <<"SetFromDB">>, load.stmts)
            ELSE IF GetModelIDValue(load.obj) = 0
            THEN Response(load.helpers, tbl, ser, 404, <<"SetFromDB">>, load.stmts)
            ELSE deleted(load, DeleteFromDBOutcome(load.helpers, tbl, ser, T, load.obj,
                                                   oks[Len(load.stmts) + 1]))
    IN  IF id = <<>> THEN Response(helpers, tbl, ser, 400, <<>>, <<>>)
        ELSE loaded(SetFromDBOutcome(helpers, tbl, ser, T, NewObj(T), id, oks[1]))

\* the function GetHTTPHandler returns, for the constructors funcs
ServeHTTP(helpers, tbl, ser, funcs, method, seg, body, oks) ==
    LET routed(g, r) ==
            IF ~g.b THEN Response(helpers, tbl, ser, 400, <<>>, <<>>)
            ELSE IF r.handle = "handleHTTPPut"
            THEN handleHTTPPut(helpers, tbl, ser, funcs[r.func], g.id, body, oks)
            ELSE IF r.handle = "handleHTTPGet"
            THEN handleHTTPGet(helpers, tbl, ser, funcs[r.func], g.id, oks)
            ELSE IF r.handle = "handleHTTPDelete"
            THEN handleHTTPDelete(helpers, tbl, ser, funcs[r.func], g.id, oks)
            ELSE Response(helpers, tbl, ser, 400, <<>>, <<>>)
        parsed(g) == routed(g, route(method, g.id))
    IN  parsed(getIDFromURI(seg))

(***************************************************************************)
(* The HTTP server of the tests: handlers for Item, and requests to them.  *)
(***************************************************************************)
\* every constructor parameter is the function that returns a new Item
ItemFuncs == [f \in {FuncOrder[j] : j \in 1..Len(FuncOrder)} |-> Item]

Methods == {"PUT", "GET", "DELETE", "POST"}

\* a digit string that is more than an int holds: 99999999999999999999
TooLongID == [n \in 1..20 |-> 57]

\* the path after the uri: nothing, an id, a letter, a number too long
Segments == {<<>>, <<120>>, TooLongID} \cup {FormatInt(n) : n \in 1..MaxID}

\* the fields a JSON body names
JSONOf(data) == [k \in (DOMAIN data) \ {"Parent"} |-> data[k]]

\* the body of a request that is no PUT
NoBody == [valid |-> FALSE, fields |-> <<>>]

\* the bodies: one that is no JSON, the data sets, and one that names the ID
Bodies ==
    {NoBody}
    \cup {[valid |-> TRUE, fields |-> JSONOf(data)] : data \in DataSets}
    \cup {[valid |-> TRUE,
           fields |-> Merge([ID |-> Int64Val(MaxID)], JSONOf(WithData(1, "ab", "a@b", 0, 1, "7", "", "")))]}

\* c.GetHTTPHandler(uri, newObjFunc, .., newObjListFunc) with the constructors
\* funcs
GetHTTPHandlerFor(funcs) ==
    /\ handlers < MaxHandlers
    /\ modelHelpers' = initHelpersForHTTPHandler(modelHelpers, funcs)
    /\ handlers' = handlers + 1
    /\ UNCHANGED <<table, serial, objs, ret, vIn, vOut, qIn, qOut, recType, resp, goroutines, linked, named>>

\* a request, of one of methods, to a handler built with the constructors
\* funcs; failed tells whether the backend did not carry out
\* a statement that was sent
RequestTo(funcs, methods) ==
    /\ handlers > 0
    /\ \E method \in methods, seg \in Segments, oks \in [1..2 -> BOOLEAN] :
       \E body \in IF method = "PUT" THEN Bodies ELSE {NoBody} :
       \E o \in {ServeHTTP(modelHelpers, table, serial, funcs, method, seg, body, oks)} :
          /\ o.serial <= MaxID
          /\ modelHelpers' = o.helpers
          /\ table' = o.table
          /\ serial' = o.serial
          /\ resp' = [method |-> method, seg |-> seg, status |-> o.status,
                      route |-> route(method, getIDFromURI(seg).id),
                      ops |-> o.ops, stmts |-> o.stmts,
                      failed |-> \E k \in 1..Len(o.stmts) : ~oks[k]]
    /\ UNCHANGED <<objs, ret, vIn, vOut, qIn, qOut, recType, handlers, goroutines, linked, named>>

\* c.GetHTTPHandler(uri, f, f, f, f, f, f) and a request to it
GetHTTPHandler == GetHTTPHandlerFor(ItemFuncs)
Request == RequestTo(ItemFuncs, Methods)

NextHTTP == GetHTTPHandler \/ Request

SpecHTTP == Init /\ [][NextHTTP]_vars

(***************************************************************************)
(* getHelper under concurrent operations.  Each goroutine runs one         *)
(* Controller operation, which begins with getHelper for its record type.  *)
(* Nothing in the package orders the accesses to the modelHelpers map, so  *)
(* a goroutine's access is open from the step that begins it to the step   *)
(* that ends it.  An access that overlaps with a write is a data race: the *)
(* runtime may stop the program (fatal error: concurrent map writes, or    *)
(* concurrent map read and map write), and a racing read may see either    *)
(* state of the map.                                                       *)
(***************************************************************************)
\* some other goroutine has a write open
WriteOpenBeside(p) == \E q \in Procs \ {p} : goroutines[q].acc = "write"

\* some other goroutine has an access open
AccessOpenBeside(p) == \E q \in Procs \ {p} : goroutines[q].acc # "none"

RaceUnchanged ==
    UNCHANGED <<table, serial, objs, ret, vIn, vOut, qIn, qOut, recType, handlers, resp, linked, named>>

\* an operation on an instance of T enters getHelper and begins to read
\* c.modelHelpers[n] for the nil check
Call(p) ==
    /\ goroutines[p].pc = "idle"
    /\ \E T \in RecordTypes :
          goroutines' = [goroutines EXCEPT ![p] = [pc |-> "check", acc |-> "read", typ |-> T.name]]
    /\ UNCHANGED modelHelpers
    /\ RaceUnchanged

\* the read of the nil check ends; a read that races with a write sees the
\* entry or not
Checked(p) ==
    /\ goroutines[p].pc = "check"
    /\ \E found \in IF WriteOpenBeside(p) THEN BOOLEAN
                    ELSE {goroutines[p].typ \in DOMAIN modelHelpers} :
          goroutines' = [goroutines EXCEPT ![p].acc = "none",
                                           ![p].pc = IF found THEN "found" ELSE "build"]
    /\ UNCHANGED modelHelpers
    /\ RaceUnchanged

\* NewHelper has returned and the write c.modelHelpers[n] = h begins
Build(p) ==
    /\ goroutines[p].pc = "build"
    /\ goroutines' = [goroutines EXCEPT ![p].pc = "store", ![p].acc = "write"]
    /\ UNCHANGED modelHelpers
    /\ RaceUnchanged

\* the write ends
Stored(p) ==
    /\ goroutines[p].pc = "store"
    /\ \E T \in RecordTypes :
          /\ T.name = goroutines[p].typ
          /\ modelHelpers' = cacheStore(modelHelpers, T.name, builtHelper(T))
    /\ goroutines' = [goroutines EXCEPT ![p].pc = "found", ![p].acc = "none"]
    /\ RaceUnchanged

\* return c.modelHelpers[n], nil: the read begins
ReturnBegin(p) ==
    /\ goroutines[p].pc = "found"
    /\ goroutines' = [goroutines EXCEPT ![p].pc = "return", ![p].acc = "read"]
    /\ UNCHANGED modelHelpers
    /\ RaceUnchanged

\* the read ends and getHelper returns
Returned(p) ==
    /\ goroutines[p].pc = "return"
    /\ goroutines' = [goroutines EXCEPT ![p].pc = "done", ![p].acc = "none"]
    /\ UNCHANGED modelHelpers
    /\ RaceUnchanged

\* the runtime finds a write of p overlapping with another access, or an
\* access of p overlapping with a write, and stops the program
Fatal(p) ==
    /\ \/ goroutines[p].acc = "write" /\ AccessOpenBeside(p)
       \/ goroutines[p].acc = "read" /\ WriteOpenBeside(p)
    /\ goroutines' = [q \in Procs |-> [pc |-> "fatal", acc |-> "none", typ |-> goroutines[q].typ]]
    /\ UNCHANGED modelHelpers
    /\ RaceUnchanged

NextRace ==
    \E p \in Procs :
        \/ Call(p)
        \/ Checked(p)
        \/ Build(p)
        \/ Stored(p)
        \/ ReturnBegin(p)
        \/ Returned(p)
        \/ Fatal(p)

SpecRace == Init /\ [][NextRace]_vars

\* C12: no write to the modelHelpers map is open while another goroutine has
\* a read or a write of the map open.
C12_ExclusiveWrites ==
    \A p \in Procs : goroutines[p].acc = "write" => ~AccessOpenBeside(p)

(***************************************************************************)
(* Claims on the helper cache and the HTTP handler, under SpecHTTP.        *)
(***************************************************************************)
\* C13: the Helper of a type name is built once: the Helper the cache holds
\* for a name stays the one Helper (the same address) through every later
\* operation, GetHTTPHandler included.
C13_BuiltOnce ==
    [][\A n \in DOMAIN modelHelpers :
          /\ n \in DOMAIN modelHelpers'
          /\ modelHelpers'[n].ptr = modelHelpers[n].ptr]_vars

\* C14: a Helper that NewHelper has returned is never changed: a Helper found
\* in the cache before and after a step (the same address) has the same
\* statements, column maps and constraint tables.
C14_HelperImmutable ==
    [][\A n \in DOMAIN modelHelpers : \A m \in DOMAIN modelHelpers' :
          modelHelpers'[m].ptr = modelHelpers[n].ptr => modelHelpers'[m] = modelHelpers[n]]_vars

\* every handle function has used the cached Helper: a row was saved, listed
\* and then deleted through the handler
C14_Witness ==
    /\ Item.name \in DOMAIN modelHelpers
    /\ resp.method = "DELETE" /\ resp.status = 200
    /\ resp.stmts = <<"SELECT", "DELETE">>

\* the segment is a decimal number that fits an int
UsableID(seg) == seg # <<>> /\ (\A n \in 1..Len(seg) : IsDigit(seg[n])) /\ ~Atoi(seg).err

\* C18: a GET, PUT or DELETE on <uri>/<id>, when the table has no row with
\* that id and the backend carries out what it is sent, is answered with 404,
\* sends nothing but the SELECT and leaves the table as it is.
C18_NoRowIs404 ==
    [][(/\ handlers' = handlers
        /\ resp'.method \in {"GET", "PUT", "DELETE"}
        /\ UsableID(resp'.seg)
        /\ Atoi(resp'.seg).n \notin DOMAIN table
        /\ ~resp'.failed)
       => (/\ resp'.status = 404
           /\ resp'.stmts = <<"SELECT">>
           /\ table' = table
           /\ serial' = serial)]_vars

\* a GET of an id the identity sequence has handed out and whose row was
\* deleted through the handler
C18_Witness ==
    /\ resp.method = "GET" /\ resp.status = 404
    /\ UsableID(resp.seg)
    /\ Atoi(resp.seg).n <= serial
    /\ Atoi(resp.seg).n \notin DOMAIN table

\* C19: a request whose id segment is no usable integer (it has a character
\* that is no digit, or it is a digit string that does not fit an int) is
\* answered with 400 and sends no statement; and 500 is the answer only when
\* the backend failed.
C19_BadIDIs400 ==
    resp.method # "none" =>
        /\ (resp.seg # <<>> /\ ~UsableID(resp.seg)) =>
               (resp.status = 400 /\ resp.stmts = <<>>)
        /\ resp.status = 500 => resp.failed

\* q is the beginning of p
IsPrefix(q, p) == Len(q) <= Len(p) /\ q = SubSeq(p, 1, Len(q))

\* C20: with an id segment that is empty or decimal, PUT without id goes to
\* handleHTTPPut with the create constructor and never loads a row, PUT with
\* an id goes to handleHTTPPut with the update constructor and begins by
\* loading the row, GET with an id reads one row, GET without id lists,
\* DELETE with an id loads the row and then deletes; any other method, and
\* DELETE without id, is answered with 400 and calls no Controller operation.
C20_Routing ==
    (resp.method # "none" /\ (resp.seg = <<>> \/ \A n \in 1..Len(resp.seg) : IsDigit(resp.seg[n]))) =>
        IF resp.method = "PUT" /\ resp.seg = <<>>
        THEN /\ resp.route = [handle |-> "handleHTTPPut", func |-> "newObjCreateFunc"]
             /\ IsPrefix(resp.ops, <<"Validate", "SaveToDB">>)
        ELSE IF resp.method = "PUT"
        THEN /\ resp.route = [handle |-> "handleHTTPPut", func |-> "newObjUpdateFunc"]
             /\ IsPrefix(resp.ops, <<"SetFromDB", "Validate", "SaveToDB">>)
             /\ resp.ops # <<>>
        ELSE IF resp.method = "GET" /\ resp.seg # <<>>
        THEN /\ resp.route = [handle |-> "handleHTTPGet", func |-> "newObjReadFunc"]
             /\ resp.ops = <<"SetFromDB">>
        ELSE IF resp.method = "GET"
        THEN /\ resp.route = [handle |-> "handleHTTPGet", func |-> "newObjListFunc"]
             /\ resp.ops = <<"GetFromDB">>
        ELSE IF resp.method = "DELETE" /\ resp.seg # <<>>
        THEN /\ resp.route = [handle |-> "handleHTTPDelete", func |-> "newObjFunc"]
             /\ IsPrefix(resp.ops, <<"SetFromDB", "DeleteFromDB">>)
             /\ resp.ops # <<>>
        ELSE /\ resp.status = 400
             /\ resp.ops = <<>>
             /\ resp.stmts = <<>>

\* a DELETE without id was answered after rows had been created
C20_Witness ==
    /\ resp.method = "DELETE" /\ resp.seg = <<>> /\ resp.status = 400
    /\ table # <<>>

(***************************************************************************)
(* The Controller with link fields (helpererror.go, controller_test.go).   *)
(* A record type has int64 fields that are foreign keys and pointer fields *)
(* that hold the linked object; the tag of the int64 field names the       *)
(* pointer field with link:<Name>.  The tag of a field is the sequence of  *)
(* its space-separated tokens, each a byte string.                         *)
(***************************************************************************)
\* key:value as the bytes of one token
Token(key, val) == Chars(key) \o <<58>> \o val

\* the record types of this section, after models.go
User ==
    [name |-> "User",
     fields |-> <<[name |-> "ID", kind |-> "int64", tag |-> <<>>],
                  [name |-> "Email", kind |-> "string", tag |-> <<Chars("req"), Chars("email")>>]>>]

Session ==
    [name |-> "Session",
     fields |-> <<[name |-> "ID", kind |-> "int64", tag |-> <<>>],
                  [name |-> "Key", kind |-> "string", tag |-> <<Token("lenmax", FormatInt(2))>>],
                  [name |-> "ExpiresAt", kind |-> "int64", tag |-> <<Chars("req")>>],
                  [name |-> "UserID", kind |-> "int64",
                   tag |-> <<Chars("req"), Token("link", Chars("User"))>>],
                  [name |-> "User", kind |-> "ptr", tag |-> <<>>]>>]

\* a type whose link names no field of the type
Stray ==
    [name |-> "Stray",
     fields |-> <<[name |-> "ID", kind |-> "int64", tag |-> <<>>],
                  [name |-> "OwnerID", kind |-> "int64",
                   tag |-> <<Token("link", Chars("Nobody"))>>]>>]

LinkTypes == {Session, Stray}

\* the keys parseTag looks for in a token, as the source lists them
TagKeys == <<"lenmin", "lenmax", "valmin", "valmax", "regexp", "link:">>

\* Helper.parseTag: what it returns for the tokens xt
parseTag(xt) ==
    LET start == [req |-> FALSE, email |-> FALSE,
                  xi |-> [k \in {"lenmin", "lenmax", "valmin", "valmax"} |-> -1],
                  regexp |-> <<>>, link |-> <<>>, helperError |-> NoHelperError]
        \* regexp.Match(`^[a-zA-Z0-9]+$`, lStr)
        matched(lStr) ==
            /\ lStr # <<>>
            /\ \A n \in 1..Len(lStr) :
                  IsDigit(lStr[n]) \/ IsUpper(lStr[n]) \/ (lStr[n] >= 97 /\ lStr[n] <= 122)
        RECURSIVE overKeys(_, _, _)
        overKeys(acc, t, k) ==
            IF k > Len(TagKeys) \/ acc.helperError.Op # "nil" THEN acc
            ELSE LET sl     == TagKeys[k]
                     prefix == Chars(sl) \o <<58>>
                     lStr   == SubSeq(t, Len(prefix) + 1, Len(t))
                     read(i) ==
                         IF i.err
                         THEN [acc EXCEPT !.helperError = [Op |-> "ParseTag", Tag |-> sl]]
                         ELSE overKeys([acc EXCEPT !.xi = (sl :> i.n) @@ @], t, k + 1)
                 IN  IF ~(Len(t) >= Len(prefix) /\ SubSeq(t, 1, Len(prefix)) = prefix)
                     THEN overKeys(acc, t, k + 1)
                     ELSE IF sl = "regexp"
                     THEN overKeys([acc EXCEPT !.regexp = lStr], t, k + 1)
                     ELSE IF sl = "link"
                     THEN overKeys([acc EXCEPT
                                       !.link = lStr,
                                       !.helperError = IF matched(lStr) THEN @
                                                       ELSE [Op |-> "ParseTag", Tag |-> "link"]],
                                   t, k + 1)
                     ELSE read(Atoi(lStr))
        RECURSIVE overTokens(_, _)
        overTokens(acc, n) ==
            IF n > Len(xt) \/ acc.helperError.Op # "nil" THEN acc
            ELSE LET t == xt[n]
                 IN  overTokens(overKeys(IF t = Chars("req") THEN [acc EXCEPT !.req = TRUE]
                                         ELSE IF t = Chars("email") THEN [acc EXCEPT !.email = TRUE]
                                         ELSE acc, t, 1),
                                n + 1)
    IN  overTokens(start, 1)

\* Helper.reflectStruct with Helper.setFieldFromTag: the Helper NewHelper
\* returns.  Fields are numbered from 0.  The query strings are no part of it:
\* no operation of this section reads them
reflectStructWithLinks(T, dbTablePrefix) ==
    LET usName == getUnderscoredName(Chars(T.name))
        start  == [typ |-> T.name,
                   dbTbl |-> dbTablePrefix \o getPluralName(usName),
                   dbColPrefix |-> usName, url |-> getPluralName(usName),
                   reqFields |-> <<>>, lenFields |-> <<>>, linkFields |-> <<>>,
                   valFields |-> <<>>, emailFields |-> <<>>, regexpFields |-> <<>>,
                   err |-> NoHelperError]
        \* s.FieldByName(link): the index of the field or -1
        FieldByName(link) ==
            IF \E n \in 1..Len(T.fields) : Chars(T.fields[n].name) = link
            THEN (CHOOSE n \in 1..Len(T.fields) : Chars(T.fields[n].name) = link) - 1
            ELSE -1
        \* setFieldFromTag, then the link
        set(h, j, p) ==
            LET recorded ==
                    [h EXCEPT
                        !.reqFields = IF p.req THEN Append(@, j) ELSE @,
                        !.emailFields = IF p.email THEN Append(@, j) ELSE @,
                        !.lenFields = IF p.xi["lenmin"] > -1 \/ p.xi["lenmax"] > -1
                                      THEN Append(@, <<j, p.xi["lenmin"], p.xi["lenmax"]>>) ELSE @,
                        !.valFields = IF p.xi["valmin"] > -1 \/ p.xi["valmax"] > -1
                                      THEN Append(@, <<j, p.xi["valmin"], p.xi["valmax"]>>) ELSE @,
                        !.regexpFields = IF p.regexp # <<>> THEN (j :> p.regexp) @@ @ ELSE @]
            IN  IF p.helperError.Op # "nil" THEN [h EXCEPT !.err = p.helperError]
                ELSE IF p.link = <<>> THEN recorded
                ELSE IF FieldByName(p.link) = -1
                THEN [recorded EXCEPT !.err = [Op |-> "Link", Tag |-> p.link]]
                ELSE [recorded EXCEPT !.linkFields = Append(@, <<j, FieldByName(p.link)>>)]
        RECURSIVE from(_, _)
        from(h, j) ==
            IF j >= Len(T.fields) \/ h.err.Op # "nil" THEN h
            ELSE IF ~IsScalar(T.fields[j + 1].kind) THEN from(h, j + 1)
            ELSE from(set(h, j, parseTag(T.fields[j + 1].tag)), j + 1)
    IN  from(start, 0)

\* the Helper NewHelper(obj, c.dbTblPrefix) returns for each of the types
LinkHelpers ==
    [n \in {T.name : T \in LinkTypes} |->
        reflectStructWithLinks(CHOOSE T \in LinkTypes : T.name = n, dbTblPrefix)] @@ <<>>

\* Controller.getHelper of this section: the cache after the call.  A Helper
\* whose Err() is not nil is not stored
getHelperWithLinks(helpers, T) ==
    IF T.name \in DOMAIN helpers THEN helpers
    ELSE LET built(h) == IF h.err.Op # "nil" THEN helpers ELSE cacheStore(helpers, T.name, h)
         IN  built(LinkHelpers[T.name])

\* Controller.Validate(obj) of this section, after getHelper: the indices it
\* appends in its loops over reqFields, lenFields, valFields and emailFields,
\* and the set of those its range over the regexpFields map adds after them.
\* heap holds the objects the pointer fields point to
ValidateWithLinks(h, T, obj, heap) ==
    LET val(j) == obj[T.fields[j + 1].name]
        RECURSIVE bfFrom(_, _)
        bfFrom(f, l) ==
            IF l > Len(h.linkFields) THEN TRUE
            ELSE IF h.linkFields[l][1] # f THEN bfFrom(f, l + 1)
            ELSE LET valueLinkField == val(h.linkFields[l][2])
                 IN  IF valueLinkField.i = 0 THEN FALSE
                     ELSE heap[valueLinkField.i]["ID"].i # 0
        req(f) ==
            (IF val(f).t = "string" /\ val(f).s = "" THEN <<f>> ELSE <<>>)
            \o (IF val(f).t = "int" /\ val(f).i = 0 THEN <<f>> ELSE <<>>)
            \o (IF val(f).t = "int64" /\ val(f).i = 0 /\ ~bfFrom(f, 1) THEN <<f>> ELSE <<>>)
        len(e) ==
            IF val(e[1]).t # "string" THEN <<>>
            ELSE (IF e[2] > -1 /\ Len(val(e[1]).s) < e[2] THEN <<e[1]>> ELSE <<>>)
                 \o (IF e[3] > -1 /\ Len(val(e[1]).s) > e[3] THEN <<e[1]>> ELSE <<>>)
        value(e) ==
            IF val(e[1]).t # "int" /\ val(e[1]).t # "int64" THEN <<>>
            ELSE (IF e[2] > -1 /\ val(e[1]).i < e[2] THEN <<e[1]>> ELSE <<>>)
                 \o (IF e[3] > -1 /\ val(e[1]).i > e[3] THEN <<e[1]>> ELSE <<>>)
        email(f) ==
            IF val(f).t # "string" THEN <<>>
            ELSE IF ~MatchString(emailRegex, val(f).s) THEN <<f>> ELSE <<>>
        RECURSIVE concat(_, _)
        concat(parts, n) == IF n > Len(parts) THEN <<>> ELSE parts[n] \o concat(parts, n + 1)
        looped(xi, re) == [b |-> xi = <<>> /\ re = {}, xi |-> xi, re |-> re]
    IN  looped(concat([n \in 1..Len(h.reqFields) |-> req(h.reqFields[n])], 1)
               \o concat([n \in 1..Len(h.lenFields) |-> len(h.lenFields[n])], 1)
               \o concat([n \in 1..Len(h.valFields) |-> value(h.valFields[n])], 1)
               \o concat([n \in 1..Len(h.emailFields) |-> email(h.emailFields[n])], 1),
               {k \in DOMAIN h.regexpFields :
                   val(k).t = "string" /\ ~MatchString(h.regexpFields[k], val(k).s)})

\* Controller.populateLinks, after getHelper: the instance after it
populateLinks(h, T, obj, heap) ==
    LET RECURSIVE from(_, _)
        from(o, l) ==
            IF l > Len(h.linkFields) THEN o
            ELSE LET target == T.fields[h.linkFields[l][1] + 1].name
                     valueSourceField == o[T.fields[h.linkFields[l][2] + 1].name]
                 IN  IF valueSourceField.i # 0 /\ heap[valueSourceField.i]["ID"].i # 0
                     THEN from([o EXCEPT ![target].i = heap[valueSourceField.i]["ID"].i], l + 1)
                     ELSE from(o, l + 1)
    IN  from(obj, 1)

(***************************************************************************)
(* A caller of that Controller: it holds one instance and one User that a  *)
(* pointer field of the instance may point to.                             *)
(***************************************************************************)
\* obj := &Session{} or &Stray{}, user := &User{}
NewLinked(T) ==
    [op |-> "new", typ |-> T, obj |-> NewObj(T), heap |-> <<NewObj(User)>>,
     b |-> TRUE, xi |-> <<>>, re |-> {}, err |-> "nil", helperErr |-> "nil"]

\* the values a caller gives a field of a kind
ValuesOf(kind) ==
    IF kind = "string" THEN {StrVal(""), StrVal("ab"), StrVal("abc")}
    ELSE IF kind = "ptr" THEN {PtrVal(0), PtrVal(1)}
    ELSE {[t |-> kind, i |-> n, s |-> ""] : n \in 0..MaxID}

InitLink ==
    /\ modelHelpers = <<>>
    /\ table = <<>>
    /\ serial = 0
    /\ recType = Item
    /\ handlers = 0
    /\ resp = NoResponse
    /\ goroutines = NoGoroutines
    /\ linked = NewLinked(Session)
    /\ named = NoNamed
    /\ objs = [slot \in Slots |-> NewObj(Item)]
    /\ ret = NoRet
    /\ vIn = NoValidate
    /\ vOut = NoResult
    /\ qIn = NoResult
    /\ qOut = NoResult

NewLinkedObj ==
    /\ \E T \in LinkTypes : linked' = NewLinked(T)
    /\ UNCHANGED <<modelHelpers, table, serial, objs, ret, vIn, vOut, qIn, qOut, recType,
                   handlers, resp, goroutines, named>>

\* obj.UserID = n, obj.User = user, obj.User = nil and so on
SetLinkedField ==
    /\ \E j \in 2..Len(linked.typ.fields) :
       \E v \in ValuesOf(linked.typ.fields[j].kind) :
          linked' = [NewLinked(linked.typ) EXCEPT
                        !.op = "set",
                        !.obj = [linked.obj EXCEPT ![linked.typ.fields[j].name] = v],
                        !.heap = linked.heap]
    /\ UNCHANGED <<modelHelpers, table, serial, objs, ret, vIn, vOut, qIn, qOut, recType,
                   handlers, resp, goroutines, named>>

\* user.ID = n
SetLinkedID ==
    /\ \E n \in 0..MaxID :
          linked' = [NewLinked(linked.typ) EXCEPT
                        !.op = "set",
                        !.obj = linked.obj,
                        !.heap = [linked.heap EXCEPT ![1]["ID"] = Int64Val(n)]]
    /\ UNCHANGED <<modelHelpers, table, serial, objs, ret, vIn, vOut, qIn, qOut, recType,
                   handlers, resp, goroutines, named>>

\* c.Validate(obj); helperErr is the Op of the HelperError that the
\* ControllerError of Op "GetHelper" wraps
ValidateLinked ==
    /\ \E hs \in {getHelperWithLinks(modelHelpers, linked.typ)} :
          /\ modelHelpers' = hs
          /\ IF linked.typ.name \notin DOMAIN hs
             THEN linked' = [linked EXCEPT !.op = "Validate", !.b = FALSE, !.xi = <<>>,
                                           !.re = {}, !.err = "GetHelper",
                                           !.helperErr = LinkHelpers[linked.typ.name].err.Op]
             ELSE \E v \in {ValidateWithLinks(hs[linked.typ.name], linked.typ,
                                              linked.obj, linked.heap)} :
                     linked' = [linked EXCEPT !.op = "Validate", !.b = v.b, !.xi = v.xi,
                                              !.re = v.re, !.err = "nil", !.helperErr = "nil"]
    /\ UNCHANGED <<table, serial, objs, ret, vIn, vOut, qIn, qOut, recType,
                   handlers, resp, goroutines, named>>

\* c.populateLinks(obj)
PopulateLinks ==
    /\ \E hs \in {getHelperWithLinks(modelHelpers, linked.typ)} :
          /\ modelHelpers' = hs
          /\ linked' = [NewLinked(linked.typ) EXCEPT
                           !.op = "populateLinks",
                           !.heap = linked.heap,
                           !.obj = IF linked.typ.name \notin DOMAIN hs THEN linked.obj
                                   ELSE populateLinks(hs[linked.typ.name], linked.typ,
                                                      linked.obj, linked.heap)]
    /\ UNCHANGED <<table, serial, objs, ret, vIn, vOut, qIn, qOut, recType,
                   handlers, resp, goroutines, named>>

NextLink == NewLinkedObj \/ SetLinkedField \/ SetLinkedID \/ ValidateLinked \/ PopulateLinks

SpecLink == InitLink /\ [][NextLink]_vars

(***************************************************************************)
(* Claims about link fields.                                               *)
(***************************************************************************)
\* the names <Name> of the link:<Name> tokens in the tag of field f
LinkNames(f) ==
    {SubSeq(f.tag[n], 6, Len(f.tag[n])) :
        n \in {m \in 1..Len(f.tag) : Len(f.tag[m]) > 5 /\ SubSeq(f.tag[m], 1, 5) = Chars("link:")}}

\* the positions in T of the fields that the scalar field at position j links
\* to by its tag
LinkTargets(T, j) ==
    {m \in 1..Len(T.fields) : Chars(T.fields[m].name) \in LinkNames(T.fields[j])}

\* field j of the instance is a link field whose linked object is there and
\* has an ID
LinkSatisfied(T, j, obj, heap) ==
    \E m \in LinkTargets(T, j) :
        /\ T.fields[m].kind = "ptr"
        /\ obj[T.fields[m].name].i # 0
        /\ heap[obj[T.fields[m].name].i]["ID"].i # 0

\* C22: when the tag of a scalar field has link:<Name> and <Name> is a field of
\* the record type, the Helper built for the type has the pair (index of the
\* tagged field, index of field <Name>) in linkFields; when <Name> is no field
\* of the type, no Helper is built and the HelperError has Op "Link".
C22_LinkRecordedOrFails ==
    linked.op = "Validate" =>
        \A j \in 1..Len(linked.typ.fields) :
            IsScalar(linked.typ.fields[j].kind) /\ LinkNames(linked.typ.fields[j]) # {} =>
                IF LinkTargets(linked.typ, j) # {}
                THEN /\ linked.typ.name \in DOMAIN modelHelpers
                     /\ \A m \in LinkTargets(linked.typ, j) :
                           \E l \in 1..Len(modelHelpers[linked.typ.name].linkFields) :
                               modelHelpers[linked.typ.name].linkFields[l] = <<j - 1, m - 1>>
                ELSE /\ linked.typ.name \notin DOMAIN modelHelpers
                     /\ linked.err = "GetHelper"
                     /\ linked.helperErr = "Link"

\* C23: Validate reports a required int64 field of value 0 unless the field is
\* a link field whose linked object is not nil and has an ID other than 0.
C23_RequiredInt64Reported ==
    linked.op = "Validate" /\ linked.err = "nil" =>
        \A j \in 1..Len(linked.typ.fields) :
            /\ linked.typ.fields[j].kind = "int64"
            /\ \E n \in 1..Len(linked.typ.fields[j].tag) :
                   linked.typ.fields[j].tag[n] = Chars("req")
            /\ linked.obj[linked.typ.fields[j].name].i = 0
            /\ ~LinkSatisfied(linked.typ, j, linked.obj, linked.heap)
            => \E n \in 1..Len(linked.xi) : linked.xi[n] = j - 1

\* C24: populateLinks sets a field tagged link:<Name> to the ID of the object
\* that pointer field <Name> points to when there is one and its ID is not 0;
\* it leaves every other field of the instance, and the linked object, as
\* they were.
C24_PopulateLinksFrame ==
    [][ linked'.op = "populateLinks" =>
          /\ linked'.heap = linked.heap
          /\ \A j \in 1..Len(linked.typ.fields) :
                LET k == linked.typ.fields[j].name
                IN  IF LinkSatisfied(linked.typ, j, linked.obj, linked.heap)
                    THEN \E m \in LinkTargets(linked.typ, j) :
                            linked'.obj[k] =
                                Int64Val(linked.heap[linked.obj[linked.typ.fields[m].name].i]["ID"].i)
                    ELSE linked'.obj[k] = linked.obj[k] ]_vars

(***************************************************************************)
(* Table names.  NewHelper makes the table name of the name of the struct  *)
(* type and the prefix it is given.                                        *)
(***************************************************************************)
MaxNameLen == 3

\* the letters the type names are made of: C, D, I, a, s, y
NameLetters == {67, 68, 73, 97, 115, 121}

\* the names of struct types: those of TestPluralName, and every name of up to
\* MaxNameLen letters that starts with an upper-case one
TypeNames ==
    {Chars("Category"), Chars("Cross"), Chars("ProductCategory"), Chars("UserCart")}
    \cup {name \in UNION {[1..n -> NameLetters] : n \in 1..MaxNameLen} : IsUpper(name[1])}

\* NewHelper(&T{}, prefix): h.dbColPrefix and h.dbTbl as reflectStructForDBQueries
\* sets them, for a struct type of the given name
NewHelperNamed ==
    /\ \E name \in TypeNames, prefix \in {<<>>, dbTblPrefix} :
          named' = [name |-> name, dbTblPrefix |-> prefix,
                    dbColPrefix |-> getUnderscoredName(name),
                    dbTbl |-> prefix \o getPluralName(getUnderscoredName(name))]
    /\ UNCHANGED <<modelHelpers, table, serial, objs, ret, vIn, vOut, qIn, qOut, recType,
                   handlers, resp, goroutines, linked>>

NextNames == NewHelperNamed

SpecNames == Init /\ [][NextNames]_vars

\* the table name without the table prefix
Pluralized == SubSeq(named.dbTbl, Len(named.dbTblPrefix) + 1, Len(named.dbTbl))

\* C25: the table name is the table prefix followed by the underscored type
\* name with a trailing y replaced by ies, otherwise with es appended after a
\* trailing s, otherwise with s appended; Category gives categories, Cross
\* crosses, ProductCategory product_categories and UserCart user_carts.
C25_PluralTableName ==
    named.name # <<>> =>
        LET us == named.dbColPrefix
            n  == Len(us)
        IN  /\ SubSeq(named.dbTbl, 1, Len(named.dbTblPrefix)) = named.dbTblPrefix
            /\ us[n] = 121 => Pluralized = SubSeq(us, 1, n - 1) \o <<105, 101, 115>>
            /\ us[n] = 115 => Pluralized = us \o <<101, 115>>
            /\ us[n] \notin {115, 121} => Pluralized = us \o <<115>>
            /\ named.name = Chars("Category") =>
                  Pluralized = <<99, 97, 116, 101, 103, 111, 114, 105, 101, 115>>
            /\ named.name = Chars("Cross") => Pluralized = <<99, 114, 111, 115, 115, 101, 115>>
            /\ named.name = Chars("ProductCategory") =>
                  Pluralized = <<112, 114, 111, 100, 117, 99, 116, 95,
                                 99, 97, 116, 101, 103, 111, 114, 105, 101, 115>>
            /\ named.name = Chars("UserCart") =>
                  Pluralized = <<117, 115, 101, 114, 95, 99, 97, 114, 116, 115>>

\* the table of ProductCategory has been named, with the prefix of the tests
C25_Witness ==
    /\ named.name = Chars("ProductCategory")
    /\ named.dbTblPrefix = dbTblPrefix
    /\ Len(named.dbTbl) = Len(dbTblPrefix) + 18

(***************************************************************************)
(* Claims about the rows a PUT request writes.                             *)
(***************************************************************************)
\* C27: the row a PUT writes is given by the URI alone: PUT <uri>/ changes no
\* row that exists and, when it succeeds, adds one row; PUT <uri>/<id> adds no
\* row and changes no row but the one with identity <id>, whatever the JSON
\* payload holds.
C27_PutRowByURI ==
    [][ resp'.method = "PUT" =>
          /\ resp'.seg = <<>> =>
                /\ \A id \in DOMAIN table : id \in DOMAIN table' /\ table'[id] = table[id]
                /\ resp'.status = 200 => RowCount(table') = RowCount(table) + 1
          /\ resp'.seg # <<>> =>
                /\ DOMAIN table' = DOMAIN table
                /\ \A id \in DOMAIN table :
                      FormatInt(id) # resp'.seg => table'[id] = table[id] ]_vars

(***************************************************************************)
(* A handler whose update constructor returns a struct with some of the    *)
(* fields of the base type, as TestStruct_Update of the tests.             *)
(***************************************************************************)
\* the update struct of Item: the ID, Name and Age, without tags of their own
Item_Update ==
    [ name |-> "Item_Update",
      fields |-> <<
        [name |-> "ID",   kind |-> "int64",  crud |-> <<>>],
        [name |-> "Name", kind |-> "string", crud |-> <<>>],
        [name |-> "Age",  kind |-> "int",    crud |-> <<>>] >> ]

\* c.GetHTTPHandler(uri, f, f, f, fUpdate, f, f)
UpdateFuncs == [ItemFuncs EXCEPT !["newObjUpdateFunc"] = Item_Update]

GetHTTPHandlerWithUpdate == GetHTTPHandlerFor(UpdateFuncs)

\* a PUT request to that handler
PutWithUpdate == RequestTo(UpdateFuncs, {"PUT"})

NextUpdate == GetHTTPHandlerWithUpdate \/ PutWithUpdate

SpecUpdate == Init /\ [][NextUpdate]_vars

\* the columns of the base type that the update struct does not declare
ColumnsNotDeclared ==
    {ItemHelper.dbFieldCols[k] : k \in ScalarNames(Item) \ FieldNames(Item_Update)}

\* C30: a PUT <uri>/<id> served with an update struct that declares some of
\* the fields of the base type leaves row <id> in the table and leaves every
\* column of it that the struct does not declare as it was, whatever the JSON
\* payload carries for it.
C30_UpdateStructColumns ==
    [][ (resp'.method = "PUT" /\ resp'.seg # <<>>) =>
          \A id \in DOMAIN table :
              FormatInt(id) = resp'.seg =>
                  /\ id \in DOMAIN table'
                  /\ \A col \in ColumnsNotDeclared : table'[id][col] = table[id][col] ]_vars

\* row 1 holds the name and the age of a second payload and the rest of the
\* first one
C30_Witness ==
    /\ resp.method = "PUT" /\ resp.seg = FormatInt(1) /\ resp.status = 200
    /\ 1 \in DOMAIN table
    /\ table[1][ItemHelper.dbFieldCols["Name"]].s = "abcd"
    /\ table[1][ItemHelper.dbFieldCols["Age"]].i = 2
    /\ table[1][ItemHelper.dbFieldCols["Flags"]].i = 1
    /\ table[1][ItemHelper.dbFieldCols["Hits"]].i = 1

====
